---- MODULE Spec2Model ----
(***************************************************************************)
(* State-machine model of cute_server.js, the CUTE cryostat position       *)
(* control server: the 80 ms hardware poll, the ADAM-6017 (ADC) client,    *)
(* the AVR32 USB controllers, the control law, the measurement history     *)
(* and the web-client command plane.                                       *)
(*                                                                         *)
(* The server is single-threaded: every action below is one event handler  *)
(* run to completion.  Handlers are written as operators on a record `s'   *)
(* that holds the server's variables, so that the calls a handler makes    *)
(* (Log, PushData, SendCmd, ForgetAVR, Deactivate, RampMotor ...) compose  *)
(* in program order.  An uncaught TypeError (a method call on a null slot) *)
(* sets `crashed' and the rest of the handler does not run.                *)
(*                                                                         *)
(* Units: positions are integers in 1/100 mm, loads in 1/200 kg, motor     *)
(* positions in steps, time in seconds (the value Math.ceil(ms/1000)).     *)
(* Calibrated ADC samples are the handler's input; the raw-count           *)
(* interpolation of Calculate and the display-only quantities              *)
(* (damperAddWeight, air pressure) are not part of the model.              *)
(***************************************************************************)
EXTENDS Integers, Sequences, FiniteSets, TLC

\* ---------------------------------------------------------------- constants
kPosHisLen == 600
kMaxBadPolls == 3
kNumLimit == 6
kTopLimit == 0
kBotLimit == 1
kHitLimit == 0
kNotLimit == 1

\* loads in 1/200 kg
kLoadNom == 35 * 200
kLoadMax == 50 * 200
kLoadMin == 20 * 200
kLoadTol == 5 * 200
\* positions in 1/100 mm
kPositionNom == 1 * 100
kPositionTol == 10
kPositionFast == 40

kMotorSlow == 50
kMotorMed == 200
kMotorFast == 1000
\* kMotorTol = 1 mm, in 1/100 mm
kMotorTol == 1 * 100

kAdamBad == -1
kAdamNotConnected == 0
kAdamMissed == 1
kAdamWaiting == 2
kAdamOK == 3

\* length of a well-formed ADAM response
kAdamRespLen == 25

\* avrSN: role slot -> the serial expected there
avrSN == [i \in 0..1 |-> IF i = 0 THEN "sn0" ELSE "sn1"]

\* ------------------------------------------------------------------- bounds
\* USB device objects 1..NumDevs, their serial numbers, sockets, clients, clock
NumDevs == 2
MaxSock == 2
NumClients == 1
MaxClock == 2
MaxUnanswered == 2

Devices == 1..NumDevs
\* serial reported by each device: device 1 is AVR0, device 2 is a foreign
\* board, device 3 is AVR1, further devices carry AVR0's serial again
DevSN(d) == CASE d = 1 -> "sn0" [] d = 2 -> "other" [] d = 3 -> "sn1" [] OTHER -> "sn0"
Slots == 0..(NumDevs + 1)
Socks == 1..MaxSock
Clients == 1..NumClients
Axes == 0..2
Null == 0

\* ------------------------------------------------------------------ helpers
Abs(x) == IF x < 0 THEN -x ELSE x
Min(a, b) == IF a < b THEN a ELSE b

\* floor(x/100 * 4266.667) for x in 1/100 mm (kMotorStepsPer_mm = 4266.667)
StepsFloor(x) == x * 42 + ((x * 66667) \div 100000)
\* ceil(x/100 * 4266.667)
StepsCeil(x) == -StepsFloor(-x)

\* Math.abs(motorPos / kMotorStepsPer_mm - stagePosition) > kMotorTol
MotorPosError(mpos, stage) ==
    \/ mpos > StepsFloor(stage + kMotorTol)
    \/ mpos < StepsCeil(stage - kMotorTol)

\* a command handed to SendCmd: op, motor number (or -1), argument, and for a
\* ramp the direction written in front of it (-1 = no "dir" prefix)
Cmd(op, n, arg, dir) == [op |-> op, n |-> n, arg |-> arg, dir |-> dir]
CmdHalt == Cmd("c.halt", -1, 0, -1)
CmdMHalt(n) == Cmd("c.mN halt", n, 0, -1)
CmdRamp(n, spd, dir) == Cmd("c.mN ramp", n, spd, dir)
CmdPoll == Cmd("f.m0;m1;m2;g.pa0-5", -1, 0, -1)
CmdNop == Cmd("c.nop", -1, 0, -1)
CmdSer == Cmd("a.ser;b.ver", -1, 0, -1)
CmdWdt1 == Cmd("c.wdt 1", -1, 0, -1)
CmdZWdt0 == Cmd("z.wdt 0", -1, 0, -1)
CmdPullups == Cmd("c.pa0-5 ++++++", -1, 0, -1)
CmdPolarity == Cmd("c.m0 on +;m1 on +;m2 on +", -1, 0, -1)
CmdMotorsOn == Cmd("c.m0 on 1;m1 on 1;m2 on 1", -1, 0, -1)
CmdOnPos(n, pos) == Cmd("c.mN on 1;mN pos", n, pos, -1)
CmdFlash(a, b) == Cmd("c.PINa 1;c.PINb 0", a, b, -1)
CmdOperator == Cmd("e.CMD", -1, 0, -1)
\* the request written to the ADAM socket, kept in the same list of commands
\* with the ADAM as its destination
CmdAdamRead == Cmd("010000000006010400000008", -1, 0, -1)
Adam == 0

\* a message to web clients: tag, number, values, text
Msg(tag, a, v, txt) == [tag |-> tag, a |-> a, v |-> v, txt |-> txt]

\* ---------------------------------------------------------------- variables
VARIABLES
    adam,            \* the ADAM socket object (a socket id), Null when absent
    adamState,       \* kAdamBad .. kAdamOK
    avrs,            \* slot -> device object, Null when empty
    avrOK,           \* slot -> 1 if the AVR answered since the last poll
    foundAVRs,       \* number of recognized AVRs
    conn,            \* web client connections, in order of acceptance
    active,          \* 0 = off, 1 = on, 2 = starting
    badPolls,        \* number of bad polls
    flashNum,        \* index into flashPin
    flashTime,       \* second of the last LED flash
    motorSpd,        \* shadow motor speeds
    motorDir,        \* shadow motor directions
    limitSwitch,     \* limit switches: top,bottom for each stage
    lastSpd,         \* last motor speeds sent to clients
    motorPos,        \* shadow motor positions (steps)
    history,         \* history of measured values, newest at index 1
    historyTime,     \* time of the most recent history entry
    logCalTime,      \* time the calculated values were last logged
    intrvl,          \* TRUE while the polling timer is set
    fullPoll,        \* flag: report polling results to clients on this tick
    verbose,
    damperPosition,
    stagePosition,
    damperLoad,
    \* -- environment
    socks,           \* socket id -> "free" | "connecting" | "open" | "closing"
    dev,             \* device object -> its status and its avrNum fields
    owed,            \* device -> response class -> responses the board still owes
    pendErr,         \* devices with a transfer-error callback not yet run
    now,             \* the clock, in seconds
    \* -- observation of the last handler
    cmds,            \* SendCmd calls made by the last handler, in order
    out,             \* PushData broadcasts made by the last handler, in order
    reply,           \* messages sent to one client by the last handler
    lastEvent,       \* the handler that ran last
    crashed,         \* an uncaught exception ended the process
    exited,          \* HandleSigInt ran
    badRun,          \* consecutive scheduler ticks that were bad while active
    badTicks,        \* consecutive scheduler ticks that were bad, active or not
    adamUnanswered,  \* ADAM requests written on this socket and not yet answered
    divTicks,        \* consecutive ticks that ended active with a motor position error
    input,           \* the lines of the packet, or the command, the last handler was given
    lastRamp,        \* <<n, spd>> of the latest call of RampMotor
    rampAgain,       \* the last handler sent a command from a call of RampMotor
                     \* whose n and spd were those of the call before it
    watch,           \* which of badRun, badTicks, divTicks, lastRamp, ramps, reg are recorded
    ramps,           \* the calls <<n, spd>> of RampMotor by the last handler, in order
    fromDev,         \* the device whose endpoint gave the last handler its data
    authTable,       \* the table `authorized' in force
    cuteName         \* client -> the cuteName field of its connection

vars == <<adam, adamState, avrs, avrOK, foundAVRs, conn, active, badPolls, flashNum,
          flashTime, motorSpd, motorDir, limitSwitch, lastSpd, motorPos, history,
          historyTime, logCalTime, intrvl, fullPoll, verbose, damperPosition,
          stagePosition, damperLoad, socks, dev, owed, pendErr, now, cmds, out,
          reply, lastEvent, crashed, exited, badRun, badTicks, adamUnanswered, divTicks,
          input, lastRamp, rampAgain, watch, ramps, fromDev, authTable, cuteName>>

\* the server state as one record, for the handlers to work on
State ==
    [adam |-> adam, adamState |-> adamState, avrs |-> avrs, avrOK |-> avrOK,
     foundAVRs |-> foundAVRs, conn |-> conn, active |-> active, badPolls |-> badPolls,
     flashNum |-> flashNum, flashTime |-> flashTime, motorSpd |-> motorSpd,
     motorDir |-> motorDir, limitSwitch |-> limitSwitch, lastSpd |-> lastSpd,
     motorPos |-> motorPos, history |-> history, historyTime |-> historyTime,
     logCalTime |-> logCalTime, intrvl |-> intrvl, fullPoll |-> fullPoll,
     verbose |-> verbose, damperPosition |-> damperPosition,
     stagePosition |-> stagePosition, damperLoad |-> damperLoad, socks |-> socks,
     dev |-> dev, owed |-> owed, pendErr |-> pendErr, now |-> now,
     cmds |-> cmds, out |-> out, reply |-> reply, lastEvent |-> lastEvent,
     crashed |-> crashed, exited |-> exited, badRun |-> badRun, badTicks |-> badTicks,
     adamUnanswered |-> adamUnanswered, divTicks |-> divTicks, input |-> input,
     lastRamp |-> lastRamp, rampAgain |-> rampAgain, watch |-> watch,
     ramps |-> ramps, fromDev |-> fromDev, authTable |-> authTable, cuteName |-> cuteName]

\* the state a handler leaves behind
Commit(s) ==
    /\ adam' = s.adam /\ adamState' = s.adamState /\ avrs' = s.avrs
    /\ avrOK' = s.avrOK /\ foundAVRs' = s.foundAVRs /\ conn' = s.conn
    /\ active' = s.active /\ badPolls' = s.badPolls /\ flashNum' = s.flashNum
    /\ flashTime' = s.flashTime /\ motorSpd' = s.motorSpd /\ motorDir' = s.motorDir
    /\ limitSwitch' = s.limitSwitch /\ lastSpd' = s.lastSpd /\ motorPos' = s.motorPos
    /\ history' = s.history /\ historyTime' = s.historyTime
    /\ logCalTime' = s.logCalTime /\ intrvl' = s.intrvl /\ fullPoll' = s.fullPoll
    /\ verbose' = s.verbose /\ damperPosition' = s.damperPosition
    /\ stagePosition' = s.stagePosition /\ damperLoad' = s.damperLoad
    /\ socks' = s.socks /\ dev' = s.dev /\ owed' = s.owed /\ pendErr' = s.pendErr
    /\ now' = s.now /\ cmds' = s.cmds /\ out' = s.out /\ reply' = s.reply
    /\ lastEvent' = s.lastEvent /\ crashed' = s.crashed /\ exited' = s.exited
    /\ badRun' = s.badRun /\ badTicks' = s.badTicks /\ adamUnanswered' = s.adamUnanswered
    /\ divTicks' = s.divTicks /\ input' = s.input /\ lastRamp' = s.lastRamp
    /\ rampAgain' = s.rampAgain /\ watch' = s.watch
    /\ ramps' = s.ramps /\ fromDev' = s.fromDev /\ authTable' = s.authTable /\ cuteName' = s.cuteName

\* the process is alive: handlers run
Running == ~crashed /\ ~exited

\* an uncaught exception: the handler stops here
Crash(s) == [s EXCEPT !.crashed = TRUE]

\* ------------------------------------------------------- logging and fan-out
\* Push data to all web clients
PushData(s, m) ==
    IF s.crashed THEN s ELSE [s EXCEPT !.out = Append(@, m)]

\* Log message to console and file, and send it to the clients
Log(s, txt) == PushData(s, Msg("C", 0, <<>>, txt))

\* ----------------------------------------------------------- AVR32 USB send
RespClasses == {"a", "z", "p", "c", "e"}
MaxOwed == 1

\* the response class a command makes the board owe
ClassOf(cmd) ==
    CASE cmd.op = "a.ser;b.ver" -> "a"
      [] cmd.op = "z.wdt 0" -> "z"
      [] cmd.op = "f.m0;m1;m2;g.pa0-5" -> "p"
      [] cmd.op = "e.CMD" -> "e"
      [] OTHER -> "c"

\* Forget about this AVR; avrNum is the avrNum field of the device or endpoint
ForgetAVR(s, avrNum) ==
    IF s.crashed THEN s
    ELSE IF avrNum = -1 THEN s
    ELSE IF s.avrs[avrNum] # Null
         THEN LET s1 == Log(s, "AVRn detached!")
              IN  [s1 EXCEPT !.foundAVRs = IF avrNum < 2 THEN @ - 1 ELSE @,
                             !.avrs[avrNum] = Null,
                             !.avrOK[avrNum] = 0]
    ELSE s

\* the outcome of the transfers to one device during one handler:
\* tx = <<d, mode>>: transfers to device d fail with mode "err" (the callback
\* reports an error later) or "exc" (transfer throws); all others succeed
TxMode(tx, d) == IF tx[1] = d THEN tx[2] ELSE "ok"

\* what board d does with a command it receives (followed when "reg" is
\* watched): "m0 pos" sets the position register of motor 0, the poll reads it
Board(s, d, cmd) ==
    IF "reg" \notin s.watch THEN s
    ELSE IF cmd.op = "c.mN on 1;mN pos" /\ cmd.n = 0 THEN [s EXCEPT !.dev[d].reg = cmd.arg]
    ELSE IF cmd.op = "f.m0;m1;m2;g.pa0-5" THEN [s EXCEPT !.dev[d].polled = s.dev[d].reg]
    ELSE s

\* device.SendCmd(cmd)
SendCmd(s, d, cmd, tx) ==
    IF s.crashed THEN s
    ELSE LET s1 == [s EXCEPT !.cmds = Append(@, [to |-> d, cmd |-> cmd])]
         IN  CASE TxMode(tx, d) = "ok" ->
                    Board([s1 EXCEPT !.owed[d][ClassOf(cmd)] = Min(@ + 1, MaxOwed)], d, cmd)
               [] TxMode(tx, d) = "err" ->
                    [s1 EXCEPT !.pendErr = @ \cup {d}]
               [] OTHER ->
                    ForgetAVR(Log(s1, "AVRn send exception"), s1.dev[d].num)

\* avrs[slot].SendCmd(cmd): a TypeError when the slot is empty
SendCmdSlot(s, slot, cmd, tx) ==
    IF s.crashed THEN s
    ELSE IF s.avrs[slot] = Null THEN Crash(s)
    ELSE SendCmd(s, s.avrs[slot], cmd, tx)

\* Deactivate position control and stop motors if necessary
Deactivate(s, tx) ==
    IF s.crashed THEN s
    ELSE LET s1 == [s EXCEPT !.active = 0]
             s2 == IF s1.avrs[0] # Null THEN SendCmdSlot(s1, 0, CmdHalt, tx) ELSE s1
         IN  PushData(s2, Msg("D", 0, <<>>, ""))

\* ------------------------------------------------------ measurement history
\* x.toFixed(4) of a position held in 1/100 mm: its digits, in 1/10000 mm
ToFixed4(x) == x * 100

\* an entry of history: the values stored in it, and (for the record only)
\* the second it was created for
Entry(t, v) == [t |-> t, v |-> v]

\* the while loop of AddToHistory without history.pop()
AddEntriesNoPop(h, ht, t) ==
    IF ht < t
    THEN LET n == t - ht
         IN  [h |-> [i \in 1..(Len(h) + n) |->
                        IF i <= n THEN Entry(t - i + 1, <<>>) ELSE h[i - n]],
              ht |-> t]
    ELSE [h |-> h, ht |-> ht]

\* the while loop of AddToHistory leaving after its first iteration
AddEntriesOnce(h, ht, t) ==
    IF ht < t
    THEN LET len == IF Len(h) >= kPosHisLen THEN Len(h) ELSE Len(h) + 1
         IN  [h |-> [i \in 1..len |-> IF i <= 1 THEN Entry(t, <<>>) ELSE h[i - 1]],
              ht |-> t]
    ELSE [h |-> h, ht |-> ht]

\* the while loop of AddToHistory, all its iterations at once: n = t - ht
\* iterations, each one unshifts an empty entry and pops the oldest entry if
\* the length then exceeds kPosHisLen (so a list of len >= kPosHisLen keeps
\* its length, a shorter one grows up to kPosHisLen)
AddEntries(h, ht, t) ==
    IF ht < t
    THEN LET n == t - ht
             len == IF Len(h) >= kPosHisLen THEN Len(h) ELSE Min(Len(h) + n, kPosHisLen)
         IN  [h |-> [i \in 1..len |-> IF i <= n THEN Entry(t - i + 1, <<>>) ELSE h[i - n]],
              ht |-> t]
    ELSE [h |-> h, ht |-> ht]

\* Log all readings (all = 0): only the raw values reach the clients, if verbose
LogReadings(s) == IF s.verbose = 1 THEN Log(s, "Raw:") ELSE s

\* Add to history of measurements; vals = <<>> when called without values.
\* The time returned is s.now.
AddToHistory(s, vals) ==
    IF s.crashed THEN s
    ELSE LET t == s.now
             r == IF Len(s.history) = 0
                  THEN [h |-> <<Entry(t, <<>>)>>, ht |-> t]
                  ELSE AddEntries(s.history, s.historyTime, t)
             s1 == [s EXCEPT !.history = r.h, !.historyTime = r.ht]
         IN  IF vals # <<>>
             THEN LET s2 == [s1 EXCEPT !.history[1].v =
                                 [j \in 1..3 |-> ToFixed4(vals[j])]]
                  IN  IF s2.logCalTime # t
                      THEN LogReadings([s2 EXCEPT !.logCalTime = t])
                      ELSE s2
             ELSE s1

\* ------------------------------------------------------ ADAM-6017 connection
FreeSocks(s) == {k \in Socks : s.socks[k] = "free"}
MinOf(S) == CHOOSE x \in S : \A y \in S : x <= y

\* Connect to ADAM-6017: a new socket object, connecting
ConnectToAdam(s) ==
    IF s.crashed THEN s
    ELSE LET k == MinOf(FreeSocks(s))
         IN  [s EXCEPT !.adam = k, !.socks[k] = "connecting", !.adamUnanswered = 0]

\* adam.destroy()
Destroy(s, k) ==
    IF s.socks[k] \in {"connecting", "open"}
    THEN [s EXCEPT !.socks[k] = "closing"]
    ELSE s

\* CloseAdam without the assignment of adamState
CloseAdamKeepState(s) ==
    IF s.crashed THEN s
    ELSE IF s.adam # Null THEN [Destroy(s, s.adam) EXCEPT !.adam = Null] ELSE s

\* End communication with Adam
CloseAdam(s) ==
    IF s.crashed THEN s
    ELSE LET s1 == IF s.adam # Null THEN [Destroy(s, s.adam) EXCEPT !.adam = Null] ELSE s
         IN  [s1 EXCEPT !.adamState = kAdamBad]

\* ----------------------------------------------------------- poll the hardware
\* the command PollHardware sends to slot i
PollCmd(i) == CASE i = 0 -> CmdPoll [] i = 1 -> CmdNop [] OTHER -> CmdSer

\* the loop over avrs in PollHardware, from slot i on
RECURSIVE PollSlots(_, _, _)
PollSlots(s, i, tx) ==
    IF s.crashed \/ i \notin Slots THEN s
    ELSE IF s.avrs[i] = Null THEN PollSlots(s, i + 1, tx)
    ELSE LET s1 == [s EXCEPT !.avrOK[i] = 0]
         IN  PollSlots(SendCmdSlot(s1, i, PollCmd(i), tx), i + 1, tx)

\* which poll is bad: "" (none), "Adam" or "AVR0"
BadPoll(s) ==
    IF s.adamState # kAdamOK THEN "Adam"
    ELSE IF s.avrOK[0] = 0 THEN "AVR0"
    ELSE ""

\* the poll of the ADAM writing the request in the state MISSED as well
PollAdamRetry(s) ==
    IF s.crashed THEN s
    ELSE IF s.adamState \in {kAdamWaiting, kAdamOK, kAdamMissed}
    THEN IF s.adam = Null THEN Crash(s)
         ELSE LET s1 == [s EXCEPT !.adamUnanswered = Min(@ + 1, MaxUnanswered),
                                  !.cmds = Append(@, [to |-> Adam, cmd |-> CmdAdamRead])]
              IN  IF s1.adamState = kAdamOK
                  THEN [s1 EXCEPT !.adamState = kAdamWaiting]
                  ELSE IF s1.adamState = kAdamWaiting
                  THEN Log([s1 EXCEPT !.adamState = kAdamMissed], "Adam not responding")
                  ELSE s1
    ELSE IF s.adamState = kAdamNotConnected
    THEN [Log(s, "Adam not connected!") EXCEPT !.adamState = kAdamBad]
    ELSE s

\* the poll of the ADAM giving the connection up after a second missed response
PollAdamGiveUp(s) ==
    IF s.crashed THEN s
    ELSE IF s.adamState = kAdamWaiting \/ s.adamState = kAdamOK
    THEN IF s.adam = Null THEN Crash(s)
         ELSE LET s1 == [s EXCEPT !.adamUnanswered = Min(@ + 1, MaxUnanswered),
                                  !.cmds = Append(@, [to |-> Adam, cmd |-> CmdAdamRead])]
              IN  IF s1.adamState = kAdamOK
                  THEN [s1 EXCEPT !.adamState = kAdamWaiting]
                  ELSE Log([s1 EXCEPT !.adamState = kAdamMissed], "Adam not responding")
    ELSE IF s.adamState = kAdamNotConnected \/ s.adamState = kAdamMissed
    THEN [Log(s, "Adam not connected!") EXCEPT !.adamState = kAdamBad]
    ELSE s

\* PollAdam that writes the request only when adamState is OK
PollAdamOnce(s) ==
    IF s.crashed THEN s
    ELSE IF s.adamState = kAdamOK
    THEN IF s.adam = Null THEN Crash(s)
         ELSE [s EXCEPT !.adamUnanswered = Min(@ + 1, MaxUnanswered),
                        !.cmds = Append(@, [to |-> Adam, cmd |-> CmdAdamRead]),
                        !.adamState = kAdamWaiting]
    ELSE IF s.adamState = kAdamWaiting
    THEN Log([s EXCEPT !.adamState = kAdamMissed], "Adam not responding")
    ELSE IF s.adamState = kAdamNotConnected
    THEN [Log(s, "Adam not connected!") EXCEPT !.adamState = kAdamBad]
    ELSE s

\* the ADAM part of PollHardware: write the request, advance adamState
PollAdam(s) ==
    IF s.crashed THEN s
    ELSE IF s.adamState = kAdamWaiting \/ s.adamState = kAdamOK
    THEN IF s.adam = Null THEN Crash(s)
         ELSE LET s1 == [s EXCEPT !.adamUnanswered = Min(@ + 1, MaxUnanswered),
                                  !.cmds = Append(@, [to |-> Adam, cmd |-> CmdAdamRead])]
              IN  IF s1.adamState = kAdamOK
                  THEN [s1 EXCEPT !.adamState = kAdamWaiting]
                  ELSE Log([s1 EXCEPT !.adamState = kAdamMissed], "Adam not responding")
    ELSE IF s.adamState = kAdamNotConnected
    THEN [Log(s, "Adam not connected!") EXCEPT !.adamState = kAdamBad]
    ELSE s

\* CountBadPoll leaving badPolls as it is on a good poll
CountBadPollKeep(s, bad, tx) ==
    IF bad # ""
    THEN LET s1 == [s EXCEPT !.badPolls = IF @ < kMaxBadPolls THEN @ + 1 ELSE @]
         IN  IF s1.active # 0 /\ s1.badPolls >= kMaxBadPolls
             THEN Deactivate(Log(s1, "poll error!  Position control deactivated"), tx)
             ELSE s1
    ELSE s

\* CountBadPoll with > for >= in the test of badPolls
CountBadPollStrict(s, bad, tx) ==
    IF bad # ""
    THEN LET s1 == [s EXCEPT !.badPolls = IF @ < kMaxBadPolls THEN @ + 1 ELSE @]
         IN  IF s1.active # 0 /\ s1.badPolls > kMaxBadPolls
             THEN Deactivate(Log(s1, "poll error!  Position control deactivated"), tx)
             ELSE s1
    ELSE [s EXCEPT !.badPolls = 0]

\* the bad-poll bookkeeping of PollHardware
CountBadPoll(s, bad, tx) ==
    IF bad # ""
    THEN LET s1 == [s EXCEPT !.badPolls = IF @ < kMaxBadPolls THEN @ + 1 ELSE @]
         IN  IF s1.active # 0 /\ s1.badPolls >= kMaxBadPolls
             THEN Deactivate(Log(s1, "poll error!  Position control deactivated"), tx)
             ELSE s1
    ELSE [s EXCEPT !.badPolls = 0]

\* PollHardware sending the empty readings on every tick, not on every other one
PollHardwareEveryTick(s, tx) ==
    LET s1 == [s EXCEPT !.fullPoll = ~@]
        s2 == IF s1.adamState # kAdamOK
              THEN LET s2a == PushData(AddToHistory(s1, <<>>),
                                       Msg("F", s1.now % kPosHisLen, <<>>, ""))
                   IN  IF s2a.adam = Null THEN ConnectToAdam(s2a) ELSE s2a
              ELSE s1
        bad == BadPoll(s1)
        s3 == CountBadPoll(s2, bad, tx)
        s4 == PollAdam(s3)
    IN  PollSlots(s4, 0, tx)

PollHardware(s, tx) ==
    LET s1 == [s EXCEPT !.fullPoll = ~@]
        s2 == IF s1.adamState # kAdamOK
              THEN LET s2a == IF s1.fullPoll
                              THEN PushData(AddToHistory(s1, <<>>),
                                            Msg("F", s1.now % kPosHisLen, <<>>, ""))
                              ELSE s1
                   IN  IF s2a.adam = Null THEN ConnectToAdam(s2a) ELSE s2a
              ELSE s1
        bad == BadPoll(s1)
        s3 == CountBadPoll(s2, bad, tx)
        s4 == PollAdam(s3)
    IN  PollSlots(s4, 0, tx)

\* ------------------------------------------------------------- motor control
\* the record of the last call of RampMotor, where it is kept
Ramped(s, n, spd) ==
    LET s1 == IF "ramps" \in s.watch THEN [s EXCEPT !.ramps = Append(@, <<n, spd>>)] ELSE s
    IN  IF "lastRamp" \in s.watch THEN [s1 EXCEPT !.lastRamp = <<n, spd>>] ELSE s1

\* RampMotor without the stop of a motor that runs the other way
RampMotorReverse(s, n, spd, tx) ==
    IF s.crashed THEN s
    ELSE IF s.motorSpd[n] = spd THEN Ramped(s, n, spd)
    ELSE LET dir == IF spd > 0 THEN 0 ELSE 1
             changeDir == IF spd # 0 /\ dir # s.motorDir[n] THEN dir ELSE -1
             s1 == [Ramped(s, n, spd) EXCEPT !.rampAgain = @ \/ s.lastRamp = <<n, spd>>]
         IN  SendCmdSlot(s1, 0, CmdRamp(n, Abs(spd), changeDir), tx)

\* RampMotor without the test of motorSpd[n] == spd
RampMotorAlways(s, n, spd, tx) ==
    IF s.crashed THEN s
    ELSE LET stop == s.motorSpd[n] * spd < 0
             spd1 == IF stop THEN 0 ELSE spd
             dir == IF spd > 0 THEN 0 ELSE 1
             changeDir == IF ~stop /\ s.motorSpd[n] = 0 /\ spd # 0 /\ dir # s.motorDir[n]
                          THEN dir ELSE -1
             s1 == [Ramped(s, n, spd) EXCEPT !.rampAgain = @ \/ s.lastRamp = <<n, spd>>]
         IN  SendCmdSlot(s1, 0, CmdRamp(n, Abs(spd1), changeDir), tx)

\* Ramp motor to specified speed (+ve = up, -ve = down)
RampMotor(s, n, spd, tx) ==
    IF s.crashed THEN s
    ELSE IF s.motorSpd[n] = spd THEN Ramped(s, n, spd)
    ELSE LET stop == s.motorSpd[n] * spd < 0
             spd1 == IF stop THEN 0 ELSE spd
             dir == IF spd > 0 THEN 0 ELSE 1
             changeDir == IF ~stop /\ s.motorSpd[n] = 0 /\ spd # 0 /\ dir # s.motorDir[n]
                          THEN dir ELSE -1
             s1 == [Ramped(s, n, spd) EXCEPT !.rampAgain = @ \/ s.lastRamp = <<n, spd>>]
         IN  SendCmdSlot(s1, 0, CmdRamp(n, Abs(spd1), changeDir), tx)

\* Calculate damper positions, loads, etc from a calibrated sample
Calculate(s, sample) ==
    [s EXCEPT !.damperPosition = sample.d,
              !.stagePosition = sample.st,
              !.damperLoad = [i \in Axes |-> kLoadNom + (sample.st[i] - sample.d[i])]]

\* DriveSpeed without the test of the distance
DriveSpeedFast(away) == kMotorFast

\* the drive speed for a distance from the nominal position
DriveSpeed(away) ==
    IF away > kPositionFast THEN kMotorFast
    ELSE IF away > kPositionTol THEN kMotorMed
    ELSE kMotorSlow

\* DriveRule without the branches for a motor that is running
DriveRuleAtRest(pos, load, spd, act) ==
    IF load > kLoadMax THEN [drive |-> -1, stop |-> FALSE]
    ELSE IF load < kLoadMin THEN [drive |-> 1, stop |-> FALSE]
    ELSE IF pos < kPositionNom - kPositionTol /\ load < kLoadMax - kLoadTol
         THEN [drive |-> 1, stop |-> FALSE]
    ELSE IF pos > kPositionNom + kPositionTol /\ load > kLoadMin + kLoadTol
         THEN [drive |-> -1, stop |-> FALSE]
    ELSE IF act = 2
         THEN [drive |-> IF pos < kPositionNom THEN 1
                         ELSE IF pos > kPositionNom THEN -1 ELSE 0,
               stop |-> FALSE]
    ELSE [drive |-> 0, stop |-> FALSE]

\* the decision of Drive for one axis:
\* drive = +1 up, -1 down, 0 none; stop = TRUE when it calls RampMotor(i, 0)
DriveRule(pos, load, spd, act) ==
    IF load > kLoadMax THEN [drive |-> -1, stop |-> FALSE]
    ELSE IF load < kLoadMin THEN [drive |-> 1, stop |-> FALSE]
    ELSE IF pos < kPositionNom - kPositionTol /\ load < kLoadMax - kLoadTol
         THEN [drive |-> 1, stop |-> FALSE]
    ELSE IF pos > kPositionNom + kPositionTol /\ load > kLoadMin + kLoadTol
         THEN [drive |-> -1, stop |-> FALSE]
    ELSE IF spd > 0
         THEN IF pos >= kPositionNom \/ load > kLoadMax - kLoadTol
              THEN [drive |-> 0, stop |-> TRUE]
              ELSE [drive |-> 1, stop |-> FALSE]
    ELSE IF spd < 0
         THEN IF pos <= kPositionNom \/ load < kLoadMin + kLoadTol
              THEN [drive |-> 0, stop |-> TRUE]
              ELSE [drive |-> -1, stop |-> FALSE]
    ELSE IF act = 2
         THEN [drive |-> IF pos < kPositionNom THEN 1
                         ELSE IF pos > kPositionNom THEN -1 ELSE 0,
               stop |-> FALSE]
    ELSE [drive |-> 0, stop |-> FALSE]

\* the gate without the test of the limit switches
LimitAllowsAny(s, i, drive) == drive # 0

\* the limit-switch gate of Drive
LimitAllows(s, i, drive) ==
    \/ drive > 0 /\ s.limitSwitch[i * 2 + kTopLimit] = kNotLimit
    \/ drive < 0 /\ s.limitSwitch[i * 2 + kBotLimit] = kNotLimit

\* the body of the loop of Drive for axis i, after the position check
DriveAxis(s, i, tx) ==
    LET pos == s.damperPosition[i]
        r == DriveRule(pos, s.damperLoad[i], s.motorSpd[i], s.active)
        s1 == IF r.stop THEN RampMotor(s, i, 0, tx) ELSE s
    IN  IF ~s1.crashed /\ LimitAllows(s1, i, r.drive)
        THEN RampMotor(s1, i, r.drive * DriveSpeed(Abs(pos - kPositionNom)), tx)
        ELSE s1

\* DriveFrom without the change of STARTING to ON after the last axis
RECURSIVE DriveFromStarting(_, _, _)
DriveFromStarting(s, i, tx) ==
    IF s.crashed THEN s
    ELSE IF i > 2 THEN s
    ELSE IF MotorPosError(s.motorPos[i], s.stagePosition[i])
         THEN Deactivate(Log(s, "Motor error!  Position control deactivated"), tx)
    ELSE DriveFromStarting(DriveAxis(s, i, tx), i + 1, tx)

\* DriveFrom going on with the next axis after the deactivation
RECURSIVE DriveFromOn(_, _, _)
DriveFromOn(s, i, tx) ==
    IF s.crashed THEN s
    ELSE IF i > 2 THEN [s EXCEPT !.active = IF @ = 2 THEN 1 ELSE @]
    ELSE IF MotorPosError(s.motorPos[i], s.stagePosition[i])
         THEN DriveFromOn(Deactivate(Log(s, "Motor error!  Position control deactivated"), tx),
                          i + 1, tx)
    ELSE DriveFromOn(DriveAxis(s, i, tx), i + 1, tx)

\* Drive motors for active position control, from axis i on
RECURSIVE DriveFrom(_, _, _)
DriveFrom(s, i, tx) ==
    IF s.crashed THEN s
    ELSE IF i > 2 THEN [s EXCEPT !.active = IF @ = 2 THEN 1 ELSE @]
    ELSE IF MotorPosError(s.motorPos[i], s.stagePosition[i])
         THEN Deactivate(Log(s, "Motor error!  Position control deactivated"), tx)
    ELSE DriveFrom(DriveAxis(s, i, tx), i + 1, tx)

Drive(s, tx) == DriveFrom(s, 0, tx)

\* Flash AVR LED lights
NumFlashPins == 4
RECURSIVE FlashSlots(_, _, _, _)
FlashSlots(s, i, cmd, tx) ==
    IF s.crashed \/ i > 1 THEN s
    ELSE FlashSlots(IF s.avrs[i] # Null THEN SendCmdSlot(s, i, cmd, tx) ELSE s,
                    i + 1, cmd, tx)

FlashLEDs(s, t, tx) ==
    IF s.crashed \/ t = s.flashTime THEN s
    ELSE LET flashNew == (s.flashNum + 1) % NumFlashPins
             s1 == FlashSlots(s, 0, CmdFlash(s.flashNum, flashNew), tx)
         IN  IF s1.crashed THEN s1
             ELSE [s1 EXCEPT !.flashNum = flashNew, !.flashTime = t]

\* the 'data' handler without the test of data.length
AdamOnDataAnyLen(s, len, sample, tx) ==
    LET s1 == IF s.adamState = kAdamMissed THEN Log(s, "Adam OK") ELSE s
        s2 == [s1 EXCEPT !.adamState = kAdamOK]
        s3 == Calculate(s2, sample)
        s4 == IF s3.active # 0 THEN Drive(s3, tx) ELSE s3
    IN  IF s4.crashed \/ ~s4.fullPoll THEN s4
        ELSE LET s5 == AddToHistory(s4, [j \in 1..3 |-> s4.damperPosition[j - 1]])
                 s6 == PushData(s5, Msg("F", s5.now % kPosHisLen,
                                [j \in 1..3 |-> ToFixed4(s5.damperPosition[j - 1])], ""))
             IN  FlashLEDs(s6, s6.now, tx)

\* the 'data' handler of the ADAM socket
AdamOnData(s, len, sample, tx) ==
    IF len # kAdamRespLen THEN s
    ELSE LET s1 == IF s.adamState = kAdamMissed THEN Log(s, "Adam OK") ELSE s
             s2 == [s1 EXCEPT !.adamState = kAdamOK]
             s3 == Calculate(s2, sample)
             s4 == IF s3.active # 0 THEN Drive(s3, tx) ELSE s3
         IN  IF s4.crashed \/ ~s4.fullPoll THEN s4
             ELSE LET s5 == AddToHistory(s4, [j \in 1..3 |-> s4.damperPosition[j - 1]])
                      s6 == PushData(s5, Msg("F", s5.now % kPosHisLen,
                                     [j \in 1..3 |-> ToFixed4(s5.damperPosition[j - 1])], ""))
                  IN  FlashLEDs(s6, s6.now, tx)

\* the 'connect' callback of the ADAM socket
AdamOnConnect(s) == Log([s EXCEPT !.adamState = kAdamOK], "Adam attached")

\* the 'error' handler of the ADAM socket
AdamOnError(s) ==
    CloseAdam(IF s.adamState = kAdamNotConnected THEN Log(s, "Adam not connected!") ELSE s)

\* -------------------------------------------------------- AVR32 USB devices
\* a device object: st = "out" (not attached), "closed" (attached, open failed)
\* or "open"; num, inNum, outNum = the avrNum field of the device and of its
\* two endpoints (-1 = not set); sn = the avrSN field
\* two fields belong to the board itself: reg = the position register of its
\* motor 0, polled = the value of reg when it received the last poll
NewDev(st) ==
    [st |-> st, num |-> -1, inNum |-> -1, outNum |-> -1, sn |-> "", reg |-> 0, polled |-> 0]

HoldingFree(s) == {i \in Slots : i >= 2 /\ s.avrs[i] = Null}

\* Open communication with our AVR device; opens = FALSE when open() or claim() throws
OpenAVR(s, d, opens, tx) ==
    IF ~opens THEN Log([s EXCEPT !.dev[d] = NewDev("closed")], "Error opening AVR device")
    ELSE LET i == MinOf(HoldingFree(s))
             s1 == [s EXCEPT !.avrs[i] = d,
                             !.dev[d] = [NewDev("open") EXCEPT !.num = i, !.inNum = i, !.outNum = i],
                             !.owed[d] = [c \in RespClasses |-> 0]]
         IN  SendCmd(s1, d, CmdSer, tx)

\* one line of a response packet.  id = "" when the line has no "X." prefix;
\* ok = the text starts with "OK"; then, by kind of response: sn (serial
\* number), n/spd/neg/pos (motor number, SPD= value, SPD= starts with "-",
\* POS= value), hasVal/val ("VAL=" present, the characters after it)
Line(id, ok) ==
    [id |-> id, ok |-> ok, sn |-> "", n |-> 0, spd |-> 0, neg |-> FALSE, pos |-> 0,
     hasVal |-> FALSE, val |-> <<>>]
LineSer(sn) == [Line("a", TRUE) EXCEPT !.sn = sn]
LineMotor(id, n, spd, neg, pos) ==
    [Line(id, TRUE) EXCEPT !.n = n, !.spd = spd, !.neg = neg, !.pos = pos]
LineLimit(hasVal, val) == [Line("g", TRUE) EXCEPT !.hasVal = hasVal, !.val = val]

\* case 'a' of HandleResponse leaving the device in its holding slot as well
RespSerKeepHolding(s, avrNum, msg, tx) ==
    IF s.avrs[avrNum] = Null THEN [s |-> Crash(s), num |-> avrNum]
    ELSE
    LET d == s.avrs[avrNum]
        s0 == [s EXCEPT !.dev[d].sn = msg]
        match == {i \in 0..1 : msg = avrSN[i]}
    IN  IF match = {}
        THEN [s |-> Log(SendCmdSlot(s0, avrNum, CmdZWdt0, tx), "Unknown AVR attached"),
              num |-> avrNum]
        ELSE
        LET i == MinOf(match)
        IN  IF avrNum < 2 /\ s0.avrs[i] = s0.avrs[avrNum]
            THEN [s |-> s0, num |-> avrNum]
            ELSE
            LET s1 == IF avrNum < 2
                      THEN Log(s0, "INTERNAL ERROR")
                      ELSE LET s1a == IF s0.avrs[i] # Null
                                      THEN IF s0.avrs[i] # s0.avrs[avrNum]
                                           THEN Log(s0, "ERROR! Already exists!") ELSE s0
                                      ELSE [s0 EXCEPT !.foundAVRs = @ + 1]
                           IN  [s1a EXCEPT !.avrs[i] = d,
                                           !.dev[d].num = i,
                                           !.dev[d].inNum = i,
                                           !.dev[d].outNum = i,
                                           !.avrOK[i] = 1,
                                           !.avrOK[avrNum] = 0]
                num1 == IF avrNum < 2 THEN avrNum ELSE i
                s2 == SendCmdSlot(s1, num1, CmdWdt1, tx)
                s3 == IF num1 = 0
                      THEN SendCmdSlot(SendCmdSlot(SendCmdSlot(s2, 0, CmdPullups, tx),
                                                   0, CmdPolarity, tx),
                                       0, CmdMotorsOn, tx)
                      ELSE s2
            IN  [s |-> Log(s3, "AVRi attached"), num |-> num1]

\* case 'a' of HandleResponse: returns the state and the new AVR number
RespSer(s, avrNum, msg, tx) ==
    IF s.avrs[avrNum] = Null THEN [s |-> Crash(s), num |-> avrNum]
    ELSE
    LET d == s.avrs[avrNum]
        s0 == [s EXCEPT !.dev[d].sn = msg]
        match == {i \in 0..1 : msg = avrSN[i]}
    IN  IF match = {}
        THEN [s |-> Log(SendCmdSlot(s0, avrNum, CmdZWdt0, tx), "Unknown AVR attached"),
              num |-> avrNum]
        ELSE
        LET i == MinOf(match)
        IN  IF avrNum < 2 /\ s0.avrs[i] = s0.avrs[avrNum]
            THEN [s |-> s0, num |-> avrNum]
            ELSE
            LET s1 == IF avrNum < 2
                      THEN Log(s0, "INTERNAL ERROR")
                      ELSE LET s1a == IF s0.avrs[i] # Null
                                      THEN IF s0.avrs[i] # s0.avrs[avrNum]
                                           THEN Log(s0, "ERROR! Already exists!") ELSE s0
                                      ELSE [s0 EXCEPT !.foundAVRs = @ + 1]
                           IN  [s1a EXCEPT !.avrs[i] = d,
                                           !.dev[d].num = i,
                                           !.dev[d].inNum = i,
                                           !.dev[d].outNum = i,
                                           !.avrs[avrNum] = Null,
                                           !.avrOK[i] = 1,
                                           !.avrOK[avrNum] = 0]
                num1 == IF avrNum < 2 THEN avrNum ELSE i
                s2 == SendCmdSlot(s1, num1, CmdWdt1, tx)
                s3 == IF num1 = 0
                      THEN SendCmdSlot(SendCmdSlot(SendCmdSlot(s2, 0, CmdPullups, tx),
                                                   0, CmdPolarity, tx),
                                       0, CmdMotorsOn, tx)
                      ELSE s2
            IN  [s |-> Log(s3, "AVRi attached"), num |-> num1]

\* case 'f' of HandleResponse: motor speeds
RespMotor(s, ln) ==
    LET s1 == [s EXCEPT !.motorSpd[ln.n] = ln.spd,
                        !.motorDir[ln.n] = IF ln.neg THEN 1 ELSE 0,
                        !.motorPos[ln.n] = ln.pos]
        newSpd == <<s1.motorSpd[0], s1.motorSpd[1], s1.motorSpd[2]>>
    IN  IF ln.n = 2 /\ s1.fullPoll /\ s1.lastSpd # newSpd
        THEN [PushData(s1, Msg("E", 0, newSpd, "")) EXCEPT !.lastSpd = newSpd]
        ELSE s1

\* the character of msg at VAL= + k, as the digit it shows (-1 past the end)
ValChar(ln, k) == IF k < Len(ln.val) THEN ln.val[k + 1] ELSE -1

\* the length test of case 'g': msg.length - j < kNumLimit, where "VAL=" starts at j
LimitMalformed(ln) == ~ln.hasVal \/ 4 + Len(ln.val) < kNumLimit

\* the loop over the switches of a well-formed limit poll, from switch k on
RECURSIVE LimitLoop(_, _, _, _)
LimitLoop(s, ln, k, tx) ==
    IF s.crashed \/ k >= kNumLimit THEN s
    ELSE IF ValChar(ln, k) = kNotLimit
         THEN LimitLoop([s EXCEPT !.limitSwitch[k] = kNotLimit], ln, k + 1, tx)
    ELSE LET s1 == [s EXCEPT !.limitSwitch[k] = kHitLimit]
             mot == k \div 2
             isBottom == (k % 2) = kBotLimit
             allowed == \/ s1.motorSpd[mot] = 0
                        \/ isBottom /\ s1.motorSpd[mot] > 0
                        \/ ~isBottom /\ s1.motorSpd[mot] < 0
         IN  IF allowed THEN LimitLoop(s1, ln, k + 1, tx)
             ELSE LimitLoop(Log(SendCmdSlot(s1, 0, CmdMHalt(mot), tx), "Mn halted!"),
                            ln, k + 1, tx)

\* case 'g' of HandleResponse: poll limit switches
RespLimit(s, ln, tx) ==
    IF LimitMalformed(ln)
    THEN LET s1 == Log(SendCmdSlot(s, 0, CmdHalt, tx), "Poll error.  Motors halted")
         IN  IF s1.crashed THEN s1
             ELSE [s1 EXCEPT !.limitSwitch = [k \in 0..(kNumLimit - 1) |-> kHitLimit]]
    ELSE LimitLoop(s, ln, 0, tx)

\* Handle response from an AVR command; returns the state and the new AVR number
HandleResponse(s, avrNum, id, ln, tx) ==
    CASE id = "a" -> RespSer(s, avrNum, ln.sn, tx)
      [] id = "b" -> [s |-> Log(s, "AVRn version"), num |-> avrNum]
      [] id = "c" -> [s |-> s, num |-> avrNum]
      [] id = "d" -> [s |-> s, num |-> avrNum]
      [] id = "e" -> [s |-> Log(s, "[AVRn] msg"), num |-> avrNum]
      [] id = "f" -> [s |-> RespMotor(s, ln), num |-> avrNum]
      [] id = "g" -> [s |-> RespLimit(s, ln, tx), num |-> avrNum]
      [] id = "z" -> [s |-> [s EXCEPT !.avrs[avrNum] = Null], num |-> avrNum]
      [] OTHER -> [s |-> Log(s, "AVRn Unknown response"), num |-> avrNum]

\* the loop of HandleData with avrOK set before the test for "OK"
RECURSIVE DataLinesAlive(_, _, _, _, _, _)
DataLinesAlive(s, avrNum, lines, j, id, tx) ==
    IF s.crashed \/ j > Len(lines) THEN s
    ELSE LET ln == lines[j]
             id1 == IF ln.id # "" THEN ln.id ELSE id
             s0 == [s EXCEPT !.avrOK[avrNum] = 1]
         IN  IF id1 # "e" /\ ~ln.ok
             THEN DataLinesAlive(Log(s0, "AVRn Bad response"), avrNum, lines, j + 1, id1, tx)
             ELSE IF id1 = "" THEN DataLinesAlive(s, avrNum, lines, j + 1, id1, tx)
             ELSE LET r == HandleResponse(s0, avrNum, id1, ln, tx)
                  IN  DataLinesAlive(r.s, r.num, lines, j + 1, id1, tx)

\* the loop over the lines of HandleData, from line j on; id = the response id
\* carried over from the previous lines ("" = none yet)
RECURSIVE DataLines(_, _, _, _, _, _)
DataLines(s, avrNum, lines, j, id, tx) ==
    IF s.crashed \/ j > Len(lines) THEN s
    ELSE LET ln == lines[j]
             id1 == IF ln.id # "" THEN ln.id ELSE id
         IN  IF id1 # "e" /\ ~ln.ok
             THEN DataLines(Log(s, "AVRn Bad response"), avrNum, lines, j + 1, id1, tx)
             ELSE IF id1 = "" THEN DataLines(s, avrNum, lines, j + 1, id1, tx)
             ELSE LET s1 == [s EXCEPT !.avrOK[avrNum] = 1]
                      r == HandleResponse(s1, avrNum, id1, ln, tx)
                  IN  DataLines(r.s, r.num, lines, j + 1, id1, tx)

\* Handle data received from our AVR devices (the endpoint of device d)
HandleData(s, d, lines, tx) ==
    IF s.dev[d].inNum = -1 THEN Log(s, "Data from unknown device!")
    ELSE DataLines(s, s.dev[d].inNum, lines, 1, "", tx)

\* the callback of a transfer that failed
SendError(s, d) == ForgetAVR(Log(s, "AVRn send error"), s.dev[d].outNum)

\* ------------------------------------------------------------- web clients
\* IP's that are allowed to connect to the server
authorized == {"*", "localhost", "130.15.24.88"}
\* GetAddr of each client
ClientAddr(c) == "10.0.0.1"

\* connection.Respond(...): a console line to this client only
Respond(s, txt) ==
    IF s.crashed THEN s ELSE [s EXCEPT !.reply = Append(@, Msg("C", 0, <<>>, txt))]
\* connection.SendData(str)
SendData(s, m) ==
    IF s.crashed THEN s ELSE [s EXCEPT !.reply = Append(@, m)]

\* the history replay without the test of the entry's length
ReplayAll(s, i) ==
    IF s.crashed THEN s
    ELSE [s EXCEPT !.reply = @ \o
              [k \in 1..(i + 1) |->
                  Msg("B", (s.historyTime - (i + 1 - k)) % kPosHisLen,
                      s.history[i + 2 - k].v, "")]]

\* the history replay of HandleClientRequest, from 0-based index i down to 0;
\* the entries of length < 3 are passed over (continue)
RECURSIVE ReplayFrom(_, _)
ReplayFrom(s, i) ==
    LET full == {j \in 0..i : Len(s.history[j + 1].v) >= 3}
    IN  IF full = {} THEN s
        ELSE LET j == CHOOSE x \in full : \A y \in full : y <= x
             IN  ReplayFrom(SendData(s, Msg("B", (s.historyTime - j) % kPosHisLen,
                                             s.history[j + 1].v, "")),
                            j - 1)

\* handle requests from our web clients
HandleClientRequest(s, c) ==
    LET s1 == [s EXCEPT !.conn = Append(@, c), !.cuteName[c] = ClientAddr(c)]
        s2 == Respond(Respond(s1, "banner"), "(n AVRs connected)")
        s3 == Log(s2, "Connected")
        s4 == SendData(s3, Msg("D", s3.active, <<>>, ""))
        s5 == SendData(s4, Msg("E", 0, s4.lastSpd, ""))
    IN  ReplayFrom(s5, Len(s5.history) - 1)

\* the 'close' handler of a connection
ClientClosed(s, c) ==
    IF \E i \in 1..Len(s.conn) : s.conn[i] = c
    THEN Log([s EXCEPT !.conn = SelectSeq(@, LAMBDA x : x # c), !.cuteName[c] = ""],
             "Closed connection")
    ELSE s

\* the value of `on' for an argument of the active command (-1 = undefined)
ActiveArg(arg) ==
    CASE arg \in {"off", "0"} -> 0
      [] arg \in {"on", "1"} -> 1
      [] arg \in {"start", "2"} -> 2
      [] OTHER -> -1

\* the loop of Activate: turn on motors and set the motor positions
RECURSIVE SeedMotors(_, _, _)
SeedMotors(s, i, tx) ==
    IF s.crashed \/ i > 2 THEN s
    ELSE LET pos == StepsFloor(s.stagePosition[i])
             s1 == SendCmdSlot(s, 0, CmdOnPos(i, pos), tx)
         IN  IF s1.crashed THEN s1
             ELSE SeedMotors([s1 EXCEPT !.motorPos[i] = pos], i + 1, tx)

\* Activate/deactivate position control with messages
Activate(s, arg, tx) ==
    LET on == ActiveArg(arg)
    IN  IF arg = "" \/ on = s.active THEN Respond(s, "Active control is ...")
        ELSE IF on = 0 THEN Log(Deactivate(s, tx), "Position control deactivated")
        ELSE IF on = 1 \/ on = 2
        THEN IF s.avrs[0] # Null
             THEN LET s1 == PushData([s EXCEPT !.active = on], Msg("D", 1, <<>>, ""))
                  IN  Log(SeedMotors(s1, 0, tx), "Position control activated")
             ELSE Log(s, "Can not activate because AVR0 is not attached")
        ELSE Respond(s, "Invalid argument for active command")

\* HandleServerCommand without the test of the authorized table
HandleServerCommandOpen(s, c, cmd, arg, n, tx) ==
    IF s.cuteName[c] = "" THEN Log(s, "Message from unknown client!")
    ELSE CASE cmd = "active" -> Activate(s, arg, tx)
           [] cmd = "name" ->
                IF arg # ""
                THEN [Log(s, "/name") EXCEPT !.cuteName[c] = arg]
                ELSE Respond(s, "Your name is")
           [] cmd = "verbose" ->
                IF arg # ""
                THEN Log([s EXCEPT !.verbose = IF arg = "on" THEN 1 ELSE 0], "Verbose")
                ELSE Respond(s, "Verbose")
           [] cmd = "log" -> Log(s, arg)
           [] cmd = "avr" ->
                LET s1 == Log(s, "/avrN")
                IN  IF n \in Slots /\ s1.avrs[n] # Null
                    THEN SendCmdSlot(s1, n, CmdOperator, tx)
                    ELSE Log(s1, "AVRn is not connected")
           [] OTHER -> Respond(s, "Unknown command")

\* Handle commands sent from our clients: cmd is the command word, arg its argument,
\* n the digit of an avrN command
HandleServerCommand(s, c, cmd, arg, n, tx) ==
    IF s.cuteName[c] = "" THEN Log(s, "Message from unknown client!")
    ELSE IF ClientAddr(c) \notin s.authTable /\ "*" \notin s.authTable
    THEN Respond(s, "Sorry, you are not authorized to issue commands")
    ELSE CASE cmd = "active" -> Activate(s, arg, tx)
           [] cmd = "name" ->
                IF arg # ""
                THEN [Log(s, "/name") EXCEPT !.cuteName[c] = arg]
                ELSE Respond(s, "Your name is")
           [] cmd = "verbose" ->
                IF arg # ""
                THEN Log([s EXCEPT !.verbose = IF arg = "on" THEN 1 ELSE 0], "Verbose")
                ELSE Respond(s, "Verbose")
           [] cmd = "log" -> Log(s, arg)
           [] cmd = "avr" ->
                LET s1 == Log(s, "/avrN")
                IN  IF n \in Slots /\ s1.avrs[n] # Null
                    THEN SendCmdSlot(s1, n, CmdOperator, tx)
                    ELSE Log(s1, "AVRn is not connected")
           [] OTHER -> Respond(s, "Unknown command")

\* ------------------------------------------------------------------ shutdown
RECURSIVE ReleaseSlots(_, _)
ReleaseSlots(s, i) ==
    IF i \notin Slots THEN s
    ELSE IF s.avrs[i] = Null THEN ReleaseSlots(s, i + 1)
    ELSE LET d == s.avrs[i]
         IN  ReleaseSlots([s EXCEPT !.avrs[i] = Null,
                                    !.foundAVRs = IF i < 2 THEN @ - 1 ELSE @,
                                    !.dev[d].st = "closed"],
                          i + 1)

\* Cleanup without clearInterval
CleanupKeepTimer(s) == CloseAdam(ReleaseSlots(s, 0))

\* Clean up before program termination
Cleanup(s) == CloseAdam(ReleaseSlots([s EXCEPT !.intrvl = FALSE], 0))

\* SIGINT handler
HandleSigInt(s) == [Cleanup(Log(s, "Exiting on SIGINT")) EXCEPT !.exited = TRUE]

\* ------------------------------------------------- inputs of the environment
TxNone == <<0, "ok">>
TxAll == {TxNone} \cup {<<d, m>> : d \in Devices, m \in {"err", "exc"}}

Sample(d0, st0, d1, st1) ==
    [d |-> [i \in Axes |-> IF i = 0 THEN d0 ELSE IF i = 1 THEN d1 ELSE kPositionNom],
     st |-> [i \in Axes |-> IF i = 0 THEN st0 ELSE IF i = 1 THEN st1 ELSE kPositionNom]]

\* the response packet to "f.m0;m1;m2;g.pa0-5": three motor lines and the limit line
PollPacket(spd0, neg0, pos0, spd1, hasVal, val) ==
    <<LineMotor("f", 0, spd0, neg0, pos0),
      LineMotor("", 1, spd1, spd1 < 0, StepsFloor(kPositionNom)),
      LineMotor("", 2, 0, FALSE, StepsFloor(kPositionNom)),
      LineLimit(hasVal, val)>>

\* the packets a board can answer with for a response class
Packets(d, class, polls) ==
    CASE class = "a" -> {<<LineSer(DevSN(d)), Line("b", TRUE)>>}
      [] class = "z" -> {<<Line("z", TRUE)>>}
      [] class = "c" -> {<<Line("c", TRUE)>>, <<Line("c", FALSE)>>}
      [] class = "e" -> {<<Line("e", TRUE), Line("", TRUE)>>}
      [] OTHER -> polls

\* =================================================================== events
\* some axis has a motor position that disagrees with the stage position
Diverged(s) == \E i \in Axes : MotorPosError(s.motorPos[i], s.stagePosition[i])

\* a handler starts: nothing sent yet
Begin(s) ==
    [s EXCEPT !.cmds = <<>>, !.out = <<>>, !.reply = <<>>, !.input = <<>>,
              !.rampAgain = FALSE, !.ramps = <<>>, !.fromDev = 0]

\* handler `ev' has run
End(s, ev) ==
    [s EXCEPT !.lastEvent = ev,
              !.divTicks = IF "divTicks" \in s.watch /\ s.active # 0 /\ Diverged(s)
                           THEN (IF ev = "tick" THEN Min(@ + 1, 2) ELSE @)
                           ELSE 0]

\* Each event below is a function from the state before to the state after
\* (Ev...), and an action that guards it.

\* ---- the scheduler tick
EvTick(s, tx) ==
    LET s1 == PollHardware(Begin(s), tx)
    IN  End([s1 EXCEPT !.badRun = IF "badRun" \in s.watch /\ BadPoll(s) # "" /\ s.active # 0
                                  THEN Min(@ + 1, kMaxBadPolls + 1) ELSE 0,
                       !.badTicks = IF "badTicks" \in s.watch /\ BadPoll(s) # ""
                                    THEN Min(@ + 1, kMaxBadPolls + 1) ELSE 0],
            "tick")
Tick(tx) ==
    /\ Running /\ intrvl
    /\ (adamState # kAdamOK /\ adam = Null) => FreeSocks(State) # {}
    /\ Commit(EvTick(State, tx))

\* ---- ADAM socket events (of socket k)
EvAdamConnected(s, k) ==
    End(AdamOnConnect([Begin(s) EXCEPT !.socks[k] = "open"]), "adamConnect")
AdamConnected(k) ==
    /\ Running /\ socks[k] = "connecting"
    /\ Commit(EvAdamConnected(State, k))

EvAdamData(s, len, sample, tx) ==
    End(AdamOnData([Begin(s) EXCEPT !.adamUnanswered = @ - 1], len, sample, tx),
        IF len = kAdamRespLen THEN "adamData" ELSE "adamShort")
AdamData(k, len, sample, tx) ==
    /\ Running /\ socks[k] = "open" /\ adamUnanswered > 0
    /\ Commit(EvAdamData(State, len, sample, tx))

AdamError(k) ==
    /\ Running /\ socks[k] \in {"connecting", "open"}
    /\ Commit(End(AdamOnError([Begin(State) EXCEPT !.socks[k] = "closing"]), "adamError"))

AdamClosed(k) ==
    /\ Running /\ socks[k] \in {"open", "closing"}
    /\ Commit(End(CloseAdam([Begin(State) EXCEPT !.socks[k] = "free"]), "adamClose"))

\* ---- USB events
EvUsbAttach(s, d, opens, tx) == End(OpenAVR(Begin(s), d, opens, tx), "attach")
UsbAttach(d, opens, tx) ==
    /\ Running /\ dev[d].st = "out" /\ d \notin pendErr
    /\ HoldingFree(State) # {}
    /\ Commit(EvUsbAttach(State, d, opens, tx))

UsbDetach(d) ==
    /\ Running /\ dev[d].st # "out"
    /\ Commit(End(ForgetAVR([Begin(State) EXCEPT !.dev[d].st = "out",
                                                !.owed[d] = [c \in RespClasses |-> 0]],
                            dev[d].num),
                  "detach"))

EvAvrData(s, d, class, lines, tx) ==
    End([HandleData([Begin(s) EXCEPT !.owed[d][class] = @ - 1], d, lines, tx)
            EXCEPT !.input = lines, !.fromDev = d],
        "avrData")
AvrData(d, class, polls, tx) ==
    /\ Running /\ dev[d].st = "open" /\ owed[d][class] > 0
    /\ \E lines \in Packets(d, class, polls) : Commit(EvAvrData(State, d, class, lines, tx))

SendErrorCallback(d) ==
    /\ Running /\ d \in pendErr
    /\ Commit(End(SendError([Begin(State) EXCEPT !.pendErr = @ \ {d}], d), "sendError"))

\* ---- web client events
EvClientConnect(s, c) == End(HandleClientRequest(Begin(s), c), "clientConnect")
ClientConnect(c) ==
    /\ Running /\ \A i \in 1..Len(conn) : conn[i] # c
    /\ Commit(EvClientConnect(State, c))

ClientClose(c) ==
    /\ Running /\ \E i \in 1..Len(conn) : conn[i] = c
    /\ Commit(End(ClientClosed(Begin(State), c), "clientClose"))

ClientCommand(c, cmd, arg, n, tx) ==
    /\ Running /\ \E i \in 1..Len(conn) : conn[i] = c
    /\ Commit(End(HandleServerCommand([Begin(State) EXCEPT !.input = <<[cmd |-> cmd, arg |-> arg]>>],
                                      c, cmd, arg, n, tx), "command"))

\* ---- SIGINT
SigInt ==
    /\ Running
    /\ Commit(End(HandleSigInt(Begin(State)), "sigint"))

\* ---- the clock advances by dt seconds
ClockAdvance(dt, max) ==
    /\ Running /\ now + dt <= max
    /\ Commit(End([Begin(State) EXCEPT !.now = @ + dt], "clock"))

\* ------------------------------------------------------------ initial states
\* the state after the main script: ConnectToAdam() has made the first socket,
\* no AVR is attached yet, the polling timer is set
Start ==
    [adam |-> 1, adamState |-> kAdamNotConnected,
     avrs |-> [i \in Slots |-> Null], avrOK |-> [i \in Slots |-> 0],
     foundAVRs |-> 0, conn |-> <<>>, active |-> 0, badPolls |-> 0,
     flashNum |-> 3, flashTime |-> 0,
     motorSpd |-> [i \in Axes |-> 0], motorDir |-> [i \in Axes |-> 0],
     limitSwitch |-> [k \in 0..5 |-> 0], lastSpd |-> <<0, 0, 0>>,
     motorPos |-> [i \in Axes |-> 0],
     history |-> <<>>, historyTime |-> -1, logCalTime |-> -1,
     intrvl |-> TRUE, fullPoll |-> FALSE, verbose |-> 0,
     damperPosition |-> [i \in Axes |-> -100],
     stagePosition |-> [i \in Axes |-> -100],
     damperLoad |-> [i \in Axes |-> 0],
     socks |-> [k \in Socks |-> IF k = 1 THEN "connecting" ELSE "free"],
     dev |-> [d \in Devices |-> NewDev("out")],
     owed |-> [d \in Devices |-> [c \in RespClasses |-> 0]],
     pendErr |-> {}, now |-> 1,
     cmds |-> <<>>, out |-> <<>>, reply |-> <<>>, lastEvent |-> "init",
     crashed |-> FALSE, exited |-> FALSE, badRun |-> 0, badTicks |-> 0, adamUnanswered |-> 0,
     divTicks |-> 0, input |-> <<>>, lastRamp |-> <<>>, rampAgain |-> FALSE,
     watch |-> {}, ramps |-> <<>>, fromDev |-> 0, authTable |-> authorized,
     cuteName |-> [c \in Clients |-> ""]]

\* the variables hold state s
InitAt(s) ==
    /\ adam = s.adam /\ adamState = s.adamState /\ avrs = s.avrs
    /\ avrOK = s.avrOK /\ foundAVRs = s.foundAVRs /\ conn = s.conn
    /\ active = s.active /\ badPolls = s.badPolls /\ flashNum = s.flashNum
    /\ flashTime = s.flashTime /\ motorSpd = s.motorSpd /\ motorDir = s.motorDir
    /\ limitSwitch = s.limitSwitch /\ lastSpd = s.lastSpd /\ motorPos = s.motorPos
    /\ history = s.history /\ historyTime = s.historyTime
    /\ logCalTime = s.logCalTime /\ intrvl = s.intrvl /\ fullPoll = s.fullPoll
    /\ verbose = s.verbose /\ damperPosition = s.damperPosition
    /\ stagePosition = s.stagePosition /\ damperLoad = s.damperLoad
    /\ socks = s.socks /\ dev = s.dev /\ owed = s.owed /\ pendErr = s.pendErr
    /\ now = s.now /\ cmds = s.cmds /\ out = s.out /\ reply = s.reply
    /\ lastEvent = s.lastEvent /\ crashed = s.crashed /\ exited = s.exited
    /\ badRun = s.badRun /\ badTicks = s.badTicks /\ adamUnanswered = s.adamUnanswered
    /\ divTicks = s.divTicks /\ input = s.input /\ lastRamp = s.lastRamp
    /\ rampAgain = s.rampAgain /\ watch = s.watch
    /\ ramps = s.ramps /\ fromDev = s.fromDev /\ authTable = s.authTable /\ cuteName = s.cuteName

Init == InitAt(Start)

\* state s, recording the history variables w
Watching(s, w) == [s EXCEPT !.watch = w]

\* the state once device 1 has been attached and has reported AVR0's serial,
\* and client 1 has connected
SerPacket(d) == <<LineSer(DevSN(d)), Line("b", TRUE)>>
StartAVR0 ==
    EvClientConnect(
        EvAvrData(EvUsbAttach(Start, 1, TRUE, TxNone), 1, "a", SerPacket(1), TxNone),
        1)

\* ==================================================== what the handlers did
\* the last handler sent command cmd (to any destination)
Sent(cmd) == \E i \in 1..Len(cmds) : cmds[i].cmd = cmd
\* the last handler sent command cmd to the device of slot-0 board d
SentTo(d, cmd) == \E i \in 1..Len(cmds) : cmds[i].to = d /\ cmds[i].cmd = cmd
\* the last handler sent a ramp command
RampsSent == {i \in 1..Len(cmds) : cmds[i].cmd.op = "c.mN ramp"}
\* the last handler broadcast 'D 0'
PushedD0 == \E i \in 1..Len(out) : out[i] = Msg("D", 0, <<>>, "")

\* ---------------------------------------------------------------- the inputs
SampleNom == Sample(kPositionNom, kPositionNom, kPositionNom, kPositionNom)
\* damper 0 low by 0.15 mm: the control law drives motor 0 up at kMotorMed
SampleLow == Sample(85, kPositionNom, kPositionNom, kPositionNom)
\* stage 0 at 3 mm: 2 mm from where motor 0 reports to be
SampleOff == Sample(kPositionNom, 300, kPositionNom, kPositionNom)
AllNot == <<kNotLimit, kNotLimit, kNotLimit, kNotLimit, kNotLimit, kNotLimit>>
TopHit0 == <<kHitLimit, kNotLimit, kNotLimit, kNotLimit, kNotLimit, kNotLimit>>
PollNom == PollPacket(0, FALSE, StepsFloor(kPositionNom), 0, TRUE, AllNot)
PollMed == PollPacket(kMotorMed, FALSE, StepsFloor(kPositionNom), 0, TRUE, AllNot)
TxExc1 == <<1, "exc">>

\* --------------------------------------------------------------------------
\* Spec: the safety supervisor, from the moment AVR0 is identified, a web
\* client is connected and the ADAM is connected.  The scheduler ticks, the
\* ADAM and the AVR answer or stay silent, the AVR is detached, position
\* control is switched on and off, SIGINT ends the server.
StartCtl == EvAdamConnected(StartAVR0, 1)
InitSup == InitAt(Watching(StartCtl, {"badRun"}))

Next ==
    \/ Tick(TxNone)
    \/ AdamData(1, kAdamRespLen, SampleNom, TxNone)
    \/ UsbDetach(1)
    \/ \E class \in {"p", "c"} : AvrData(1, class, {PollNom}, TxNone)
    \/ \E arg \in {"on", "off"} : ClientCommand(1, "active", arg, 0, TxNone)
    \/ SigInt

Spec == InitSup /\ [][Next]_vars

\* --------------------------------------------------------------------------
\* SpecBad: the events of Spec, with the bad ticks counted both ways: those in
\* a row while active, and those in a row whether active or not.
SpecBad == InitAt(Watching(StartCtl, {"badRun", "badTicks"})) /\ [][Next]_vars

\* --------------------------------------------------------------------------
\* SpecCtl: position control, from the same moment.  ADC samples in and out of
\* the position band and with the stage away from the motor, motor feedback,
\* polls whose transfer to the AVR throws, activation.
InitCtl == InitAt(Watching(StartCtl, {"divTicks"}))

NextCtl ==
    \/ \E tx \in {TxNone, TxExc1} : Tick(tx)
    \/ \E sample \in {SampleNom, SampleLow, SampleOff} :
           AdamData(1, kAdamRespLen, sample, TxNone)
    \/ AvrData(1, "p", {PollNom, PollMed}, TxNone)
    \/ ClientCommand(1, "active", "on", 0, TxNone)

SpecCtl == InitCtl /\ [][NextCtl]_vars

\* --------------------------------------------------------------------------
\* SpecRamp: the ramp commands of the control law, from the same moment.
InitRamp == InitAt(Watching(StartCtl, {"lastRamp"}))

NextRamp ==
    \/ Tick(TxNone)
    \/ \E sample \in {SampleNom, SampleLow} : AdamData(1, kAdamRespLen, sample, TxNone)
    \/ AvrData(1, "p", {PollNom, PollMed}, TxNone)
    \/ ClientCommand(1, "active", "on", 0, TxNone)

SpecRamp == InitRamp /\ [][NextRamp]_vars

\* --------------------------------------------------------------------------
\* SpecLim: the limit switches, from the same moment.  Poll responses with a
\* motor running up or down, the top switch of axis 0 hit or not, the VAL=
\* field complete, two characters long, or missing; polls whose transfer
\* to the AVR throws.
PollsLim ==
    {PollNom,
     PollPacket(kMotorMed, FALSE, StepsFloor(kPositionNom), 0, TRUE, TopHit0),
     PollPacket(0 - kMotorMed, TRUE, StepsFloor(kPositionNom), 0, TRUE, TopHit0),
     PollPacket(0, FALSE, StepsFloor(kPositionNom), 0, TRUE, <<kNotLimit, kNotLimit>>),
     PollPacket(0, FALSE, StepsFloor(kPositionNom), 0, FALSE, <<>>)}
InitLim == InitAt(StartCtl)

NextLim ==
    \/ \E tx \in {TxNone, TxExc1} : Tick(tx)
    \/ AdamData(1, kAdamRespLen, SampleNom, TxNone)
    \/ AvrData(1, "p", PollsLim, TxNone)
    \/ ClientCommand(1, "active", "on", 0, TxNone)

SpecLim == InitLim /\ [][NextLim]_vars

\* --------------------------------------------------------------------------
\* SpecFirst: the first limit polls, from the moment AVR0 is recognized and
\* the ADAM is connected, with the limit switches as the server starts with
\* them.  The board answers the poll with all six switch characters, none
\* hit, or with two characters only; damper 0 is at the nominal position or
\* low; position control is switched on or started.
PollsFirst ==
    {PollNom,
     PollPacket(0, FALSE, StepsFloor(kPositionNom), 0, TRUE, <<kNotLimit, kNotLimit>>)}

NextFirst ==
    \/ Tick(TxNone)
    \/ \E sample \in {SampleNom, SampleLow} : AdamData(1, kAdamRespLen, sample, TxNone)
    \/ AvrData(1, "p", PollsFirst, TxNone)
    \/ \E arg \in {"on", "start"} : ClientCommand(1, "active", arg, 0, TxNone)

SpecFirst == InitAt(StartCtl) /\ [][NextFirst]_vars

\* --------------------------------------------------------------------------
\* SpecHist: the measurement history, from the moment the ADAM is connected.
\* The clock advances by seconds, makes a jump of more than kPosHisLen seconds,
\* and advances by seconds again; ticks and ADC samples add entries; web
\* clients connect and get the replay.
MaxClockHist == 605
StartHist == EvAdamConnected(Start, 1)
InitHist == InitAt(StartHist)

NextHist ==
    \/ Tick(TxNone)
    \/ AdamData(1, kAdamRespLen, SampleLow, TxNone)
    \/ ClientConnect(1)
    \/ ClientClose(1)
    \/ ClockAdvance(1, MaxClock)
    \/ ClockAdvance(kPosHisLen + 1, MaxClockHist)
    \/ now > kPosHisLen /\ ClockAdvance(1, MaxClockHist)

SpecHist == InitHist /\ [][NextHist]_vars

\* --------------------------------------------------------------------------
\* SpecLaw: the decision table of the control law, from the same moment.  ADC
\* samples at a load of 40 kg (the stage 10 mm above the damper) with damper 0
\* at, inside, below and above the position band, samples at 46 kg (near
\* kLoadMax), at 55 kg and at 15 kg; motor 0 reported at rest, running up and
\* running down, 10.9 mm or 22.95 mm up; position control switched on and
\* started.  The ADAM and the AVR answer every poll before the next tick.
SampleNom40 == Sample(kPositionNom, 1100, kPositionNom, kPositionNom)
SampleIn40 == Sample(95, 1095, kPositionNom, kPositionNom)
SampleLow40 == Sample(85, 1085, kPositionNom, kPositionNom)
SampleAbove40 == Sample(105, 1105, kPositionNom, kPositionNom)
SampleHigh40 == Sample(150, 1150, kPositionNom, kPositionNom)
\* load 46 kg, above kLoadMax - kLoadTol: the stage 22 mm above the damper
SampleNear == Sample(95, 2295, kPositionNom, kPositionNom)
\* load 15 kg: the stage 40 mm below the damper
SampleUnder == Sample(kPositionNom, 0 - 3900, kPositionNom, kPositionNom)
\* load 55 kg: the stage 40 mm above the damper
SampleOver == Sample(kPositionNom, 4100, kPositionNom, kPositionNom)
SamplesLaw == {SampleNom40, SampleIn40, SampleLow40, SampleAbove40, SampleHigh40,
               SampleNear, SampleOver, SampleUnder}
PollsLaw == {PollPacket(spd, spd < 0, StepsFloor(pos), 0, TRUE, AllNot) :
                 spd \in {0, kMotorMed, 0 - kMotorMed}, pos \in {1090, 2295}}
InitLaw == InitAt(Watching(StartCtl, {"ramps"}))

NextLaw ==
    \/ adamUnanswered = 0 /\ owed[1]["p"] = 0 /\ Tick(TxNone)
    \/ \E sample \in SamplesLaw : AdamData(1, kAdamRespLen, sample, TxNone)
    \/ AvrData(1, "p", PollsLaw, TxNone)
    \/ \E arg \in {"on", "start"} : ClientCommand(1, "active", arg, 0, TxNone)

SpecLaw == InitLaw /\ [][NextLaw]_vars

\* --------------------------------------------------------------------------
\* SpecAdc: the ADC channel, from the same moment.  The ADAM answers with 25
\* bytes, with a fragment of 24 bytes or with two responses in one chunk of 50
\* bytes, or stays silent; the clock advances; position control is switched on.
AdamLens == {kAdamRespLen, kAdamRespLen - 1, 2 * kAdamRespLen}
InitAdc == InitAt(Watching(StartCtl, {"ramps"}))

NextAdc ==
    \/ Tick(TxNone)
    \/ \E len \in AdamLens : \E sample \in {SampleNom, SampleLow} :
           AdamData(1, len, sample, TxNone)
    \/ AvrData(1, "p", {PollNom}, TxNone)
    \/ ClientCommand(1, "active", "on", 0, TxNone)
    \/ ClockAdvance(1, MaxClock)

SpecAdc == InitAdc /\ [][NextAdc]_vars

\* --------------------------------------------------------------------------
\* SpecAuth: the server run with an authorized table that lists addresses only
\* (the '*' entry taken out), from the moment AVR0 is recognized, the ADAM is
\* connected and a client at ClientAddr has connected.  The client issues
\* commands, closes and connects again; the hardware is polled and answers.
StartAuth == [StartCtl EXCEPT !.authTable = authorized \ {"*"}]
InitAuth == InitAt(StartAuth)
CmdWords == {"active", "verbose", "name", "log", "avr", "help"}
CmdArgs == {"", "on", "off"}

NextAuth ==
    \/ Tick(TxNone)
    \/ \E sample \in {SampleNom, SampleLow} : AdamData(1, kAdamRespLen, sample, TxNone)
    \/ AvrData(1, "p", {PollNom}, TxNone)
    \/ \E c \in Clients : \E cmd \in CmdWords : \E arg \in CmdArgs :
           ClientCommand(c, cmd, arg, 0, TxNone)
    \/ \E c \in Clients : ClientConnect(c)
    \/ \E c \in Clients : ClientClose(c)

SpecAuth == InitAuth /\ [][NextAuth]_vars

\* --------------------------------------------------------------------------
\* SpecDir: the direction of the motors, from the same moment as SpecLaw.
\* Motor 0 reports to be at rest, running up or running down, and at rest with
\* the sign of its last direction (SPD=-0); the damper is low, high or at the
\* nominal position at the nominal load.
PollsDir == PollsLaw \cup {PollPacket(0, TRUE, StepsFloor(1090), 0, TRUE, AllNot)}
SamplesDir == {SampleNom40, SampleLow40, SampleHigh40}
InitDir == InitAt(Watching(StartCtl, {"ramps"}))

NextDir ==
    \/ adamUnanswered = 0 /\ owed[1]["p"] = 0 /\ Tick(TxNone)
    \/ \E sample \in SamplesDir : AdamData(1, kAdamRespLen, sample, TxNone)
    \/ AvrData(1, "p", PollsDir, TxNone)
    \/ \E arg \in {"on", "start"} : ClientCommand(1, "active", arg, 0, TxNone)

SpecDir == InitDir /\ [][NextDir]_vars

\* --------------------------------------------------------------------------
\* SpecGate: the limit switches in the control law, from the same moment as
\* SpecLaw.  The polls report no switch hit, the top switch of axis 0 hit or
\* its bottom switch hit, with motor 0 at rest or running; the damper is low,
\* high or at the nominal position at the nominal load.
BotHit0 == <<kNotLimit, kHitLimit, kNotLimit, kNotLimit, kNotLimit, kNotLimit>>
PollsGate ==
    {PollPacket(spd, spd < 0, StepsFloor(1090), 0, TRUE, val) :
        spd \in {0, kMotorMed, 0 - kMotorMed}, val \in {AllNot, TopHit0, BotHit0}}
SamplesGate == {SampleNom40, SampleLow40, SampleHigh40}
InitGate == InitAt(Watching(StartCtl, {"ramps"}))

NextGate ==
    \/ adamUnanswered = 0 /\ owed[1]["p"] = 0 /\ Tick(TxNone)
    \/ \E sample \in SamplesGate : AdamData(1, kAdamRespLen, sample, TxNone)
    \/ AvrData(1, "p", PollsGate, TxNone)
    \/ \E arg \in {"on", "start"} : ClientCommand(1, "active", arg, 0, TxNone)

SpecGate == InitGate /\ [][NextGate]_vars

\* --------------------------------------------------------------------------
\* SpecSock: the connection to the ADAM, from the start of the server.  The
\* socket connects, fails or is closed by the other side; the scheduler ticks
\* and connects again; the ADAM answers with a response or with a fragment.
NextSock ==
    \/ Tick(TxNone)
    \/ \E k \in Socks : AdamConnected(k)
    \/ \E k \in Socks : \E len \in AdamLens : AdamData(k, len, SampleNom, TxNone)
    \/ \E k \in Socks : AdamError(k)
    \/ \E k \in Socks : AdamClosed(k)
    \/ ClockAdvance(1, MaxClock)

SpecSock == Init /\ [][NextSock]_vars

\* --------------------------------------------------------------------------
\* SpecUsb: the registry of USB controllers, from the start of the server.
\* Boards are attached and detached, answer the serial-number request and the
\* z.wdt 0 command sooner or later, the scheduler polls the holding slots
\* again, transfers to board 1 fail in the callback or throw.
TxUsb == {TxNone, <<1, "err">>, TxExc1}
\* foundAVRs is followed up to this count
MaxFound == 2

NextUsb ==
    /\ foundAVRs <= MaxFound
    /\ \/ \E d \in Devices : UsbAttach(d, TRUE, TxNone)
       \/ \E d \in Devices : UsbDetach(d)
       \/ \E d \in Devices : \E class \in {"a", "z"} : AvrData(d, class, {}, TxNone)
       \/ \E tx \in TxUsb : Tick(tx)
       \/ \E d \in Devices : SendErrorCallback(d)

SpecUsb == Init /\ [][NextUsb]_vars

\* --------------------------------------------------------------------------
\* SpecSeed: activation while a poll is in flight, from the same moment.  The
\* board answers each poll with the position its motor 0 had when the poll
\* reached it; the stage is at the nominal position or 2 mm above it; the
\* dampers are at the nominal position, so the control law drives no motor.
\* The board answers a poll before the next one is sent.
NextSeed ==
    \/ owed[1]["p"] = 0 /\ Tick(TxNone)
    \/ \E sample \in {SampleNom, SampleOff} : AdamData(1, kAdamRespLen, sample, TxNone)
    \/ AvrData(1, "p", {PollPacket(0, FALSE, dev[1].polled, 0, TRUE, AllNot)}, TxNone)
    \/ \E arg \in {"on", "off"} : ClientCommand(1, "active", arg, 0, TxNone)

SpecSeed == InitAt(Watching(StartCtl, {"reg"})) /\ [][NextSeed]_vars

\* --------------------------------------------------------------------------
\* SpecBind: the binding of boards to slots, from the start of the server.  As
\* SpecUsb, and a board answers the serial-number request with its own serial
\* or with the serial of AVR0, so that two boards can claim the same role slot.
\* ---- the serial-number response of board d, reporting serial sn
AvrSerial(d, sn) ==
    /\ Running /\ dev[d].st = "open" /\ owed[d]["a"] > 0
    /\ Commit(EvAvrData(State, d, "a", <<LineSer(sn), Line("b", TRUE)>>, TxNone))

NextBind ==
    /\ foundAVRs <= MaxFound /\ foundAVRs >= 0 - MaxFound
    /\ \/ \E d \in Devices : UsbAttach(d, TRUE, TxNone)
       \/ \E d \in Devices : UsbDetach(d)
       \/ \E d \in Devices : \E sn \in {avrSN[0], DevSN(d)} : AvrSerial(d, sn)
       \/ \E d \in Devices : AvrData(d, "z", {}, TxNone)
       \/ \E tx \in TxUsb : Tick(tx)
       \/ \E d \in Devices : SendErrorCallback(d)

SpecBind == Init /\ [][NextBind]_vars

\* --------------------------------------------------------------------------
\* SpecCmd: the command plane under the shipped authorized table, from the
\* moment AVR0 is recognized, the ADAM is connected and a client has connected.
\* The client sends the active and verbose commands with their arguments, with
\* an argument that is none of them, and a command word the server does not
\* know; the hardware is polled and answers.
InitCmd == InitAt(StartCtl)
CmdWordsCmd == {"active", "verbose", "bogus"}
CmdArgsCmd == {"", "on", "off", "start", "maybe"}

NextCmd ==
    \/ Tick(TxNone)
    \/ AdamData(1, kAdamRespLen, SampleNom, TxNone)
    \/ AvrData(1, "p", {PollNom}, TxNone)
    \/ \E cmd \in CmdWordsCmd : \E arg \in CmdArgsCmd :
           ClientCommand(1, cmd, arg, 0, TxNone)

SpecCmd == InitCmd /\ [][NextCmd]_vars

\* --------------------------------------------------------------------------
\* SpecLock: the interlocks of the control law, from the same moment.  ADC
\* samples with damper 0 low, with stage 0 away from motor 0 and damper 1 low,
\* and with damper 0 low and stage 1 away from motor 1; transfers to the AVR
\* that throw, during a poll or during the control pass; position control is
\* switched on and off.
SampleOffLow1 == Sample(kPositionNom, 300, 85, kPositionNom)
SampleLowOff1 == Sample(85, kPositionNom, kPositionNom, 300)
SamplesLock == {SampleNom, SampleLow, SampleOffLow1, SampleLowOff1}
InitLock == InitAt(Watching(StartCtl, {"ramps"}))

NextLock ==
    \/ \E tx \in {TxNone, TxExc1} : Tick(tx)
    \/ \E sample \in SamplesLock : \E tx \in {TxNone, TxExc1} :
           AdamData(1, kAdamRespLen, sample, tx)
    \/ AvrData(1, "p", {PollNom, PollMed}, TxNone)
    \/ \E arg \in {"on", "off"} : ClientCommand(1, "active", arg, 0, TxNone)

SpecLock == InitLock /\ [][NextLock]_vars

\* --------------------------------------------------------------------------
\* SpecAct: activation, from the same moment.  The stages are at the nominal
\* position or stage 0 is elsewhere; the AVR0 board is detached; the client
\* sends active on, start and off, closes and connects again; the transfers
\* of the activation succeed or throw.
SamplesAct == {SampleNom, Sample(95, 2295, kPositionNom, kPositionNom)}
InitAct == InitAt(StartCtl)

NextAct ==
    \/ Tick(TxNone)
    \/ \E sample \in SamplesAct : AdamData(1, kAdamRespLen, sample, TxNone)
    \/ AvrData(1, "p", {PollNom}, TxNone)
    \/ UsbDetach(1)
    \/ \E arg \in {"on", "start", "off"} : \E tx \in {TxNone, TxExc1} :
           ClientCommand(1, "active", arg, 0, tx)
    \/ ClientClose(1)
    \/ ClientConnect(1)

SpecAct == InitAct /\ [][NextAct]_vars

\* --------------------------------------------------------------------------
\* SpecForget: transfers to the AVR0 board fail, from the moment AVR0 is
\* recognized and the ADAM is connected.  No USB device is attached or detached
\* afterwards.  The polling timer keeps firing: setInterval (line 181) is never
\* cleared while the server runs, hence the weak fairness of the timer's step.
InitForget == InitAt(StartCtl)

NextForget ==
    \/ \E tx \in TxUsb : Tick(tx)
    \/ SendErrorCallback(1)
    \/ AvrData(1, "p", {PollNom}, TxNone)
    \/ \E sample \in {SampleNom, SampleLow} : AdamData(1, kAdamRespLen, sample, TxNone)
    \/ ClientCommand(1, "active", "on", 0, TxNone)

\* a step of the polling timer: PollHardware, and no other handler, toggles fullPoll
TimerFires == Running /\ fullPoll' = ~fullPoll

SpecForget == InitForget /\ [][NextForget]_vars /\ WF_fullPoll(TimerFires)

\* --------------------------------------------------------------------------
\* SpecId: the identification of AVR0 (board 1) among other boards, from the
\* start of the server.  No transfer fails and board 1, once attached, stays
\* attached; board 2, a foreign board, is attached and detached.  The polling
\* timer keeps firing (setInterval, line 181), and a board that is attached
\* answers the a.ser requests it has received: hence the weak fairness of the
\* timer's step and of the boards' answers.
NextId ==
    /\ foundAVRs <= MaxFound /\ foundAVRs >= 0 - MaxFound
    /\ \/ \E d \in Devices : UsbAttach(d, TRUE, TxNone)
       \/ \E d \in Devices \ {1} : UsbDetach(d)
       \/ \E d \in Devices : AvrSerial(d, DevSN(d))
       \/ \E d \in Devices : AvrData(d, "z", {}, TxNone)
       \/ Tick(TxNone)

\* board d delivers a response while it owes the answer to an a.ser request
DeviceAnswers(d) == Running /\ dev[d].st = "open" /\ owed[d]["a"] > 0 /\ fromDev' = d

SpecId ==
    /\ Init /\ [][NextId]_vars
    /\ WF_fullPoll(TimerFires)
    /\ \A d \in Devices : WF_fromDev(DeviceAnswers(d))

\* ==================================================================== claims
\* ------------------------------------------------------------------------ C1
\* C1 as stated: after kMaxBadPolls consecutive scheduler ticks that were bad
\* while position control was active, active = OFF, c.halt has been issued and
\* 'D 0' has been broadcast.
BadPollsHalt ==
    (lastEvent = "tick" /\ badRun >= kMaxBadPolls) =>
        (active = 0 /\ Sent(CmdHalt) /\ PushedD0)

\* C1 amended: after kMaxBadPolls consecutive bad ticks while active,
\* active = OFF and 'D 0' has been broadcast; c.halt has been sent to the board
\* of slot 0 if slot 0 is occupied, and to nobody if it is empty.
BadPollsDeactivate ==
    (lastEvent = "tick" /\ badRun >= kMaxBadPolls) =>
        /\ active = 0 /\ PushedD0
        /\ (avrs[0] # Null => SentTo(avrs[0], CmdHalt))
        /\ (avrs[0] = Null => ~Sent(CmdHalt))

\* C1 witness: the third bad tick in a row with AVR0 attached has deactivated,
\* halted and broadcast.
BadPollsHalted ==
    /\ lastEvent = "tick" /\ badRun >= kMaxBadPolls /\ active = 0
    /\ avrs[0] # Null /\ SentTo(avrs[0], CmdHalt) /\ PushedD0

\* ------------------------------------------------------------------------ C5
SentAdamRead == SentTo(Adam, CmdAdamRead)

SigIntHalts ==
    exited => \A d \in Devices :
                  (dev[d].st = "closed" /\ dev[d].num = 0) => SentTo(d, CmdHalt)

\* ------------------------------------------------------------------------ C2
\* C2 as stated: while active, a motor position that is more than kMotorTol
\* from the stage position has the system deactivated within one scheduler
\* tick: no two ticks in a row end active with such a position.
MotorErrorOneTick == divTicks <= 1

\* ------------------------------------------------------------------------ C6
\* C6 as stated: no sequence of events ends a handler with an uncaught error.
NeverCrashes == ~crashed

\* ------------------------------------------------------------------------ C3
\* the last handler was given a poll response with all kNumLimit switch characters
LimitPoll ==
    /\ lastEvent = "avrData" /\ Len(input) = 4
    /\ input[4].id = "g" /\ input[4].ok /\ input[4].hasVal
    /\ Len(input[4].val) = kNumLimit
\* switch k of that response reads HIT and its motor runs towards it
DrivenAgainst(k) ==
    /\ input[4].val[k + 1] # kNotLimit
    /\ IF k % 2 = kBotLimit THEN motorSpd[k \div 2] < 0 ELSE motorSpd[k \div 2] > 0

\* C3 as stated: on a limit poll, c.mM halt is issued for motor M exactly when
\* M runs up with its top switch HIT or down with its bottom switch HIT.
LimitHalts ==
    LimitPoll => \A m \in Axes :
                     Sent(CmdMHalt(m)) <=> \E k \in {2 * m, 2 * m + 1} : DrivenAgainst(k)

\* ------------------------------------------------------------------------ C4
\* the last handler completed on a poll response without VAL= or with fewer
\* than kNumLimit characters after it
MalformedLimitPoll ==
    /\ lastEvent = "avrData" /\ ~crashed /\ Len(input) = 4
    /\ input[4].id = "g" /\ input[4].ok
    /\ (~input[4].hasVal \/ Len(input[4].val) < kNumLimit)

\* C4 as stated: a malformed limit poll response has c.halt sent and every
\* limitSwitch[k] set to HIT.
MalformedPollHalts ==
    MalformedLimitPoll =>
        (Sent(CmdHalt) /\ \A k \in 0..(kNumLimit - 1) : limitSwitch[k] = kHitLimit)

\* ------------------------------------------------------------------------ C8
\* C8 as stated: RampMotor(i, s) called twice in succession with the same i and
\* s sends no second command.
RampIdempotent == ~rampAgain

\* C8 amended: RampMotor(i, s) sends no command when the shadow speed
\* motorSpd[i], which only the motor feedback of a poll updates, equals s:
\* no ramp command asks for the speed the shadow already shows.
RampOnChange ==
    \A i \in RampsSent : cmds[i].cmd.arg # Abs(motorSpd[cmds[i].cmd.n])

\* C8 witness: the control law has called RampMotor(0, kMotorMed) on a low
\* damper while the shadow speed is kMotorMed, and nothing was sent.
RampSkipped ==
    /\ lastEvent = "adamData" /\ active # 0 /\ damperPosition[0] = 85
    /\ limitSwitch[kTopLimit] = kNotLimit /\ motorSpd[0] = kMotorMed
    /\ lastRamp = <<0, kMotorMed>> /\ cmds = <<>>

\* ------------------------------------------------------------------------ C9
\* the non-empty entries of history, newest first
FullEntries == SelectSeq(history, LAMBDA e : Len(e.v) >= 3)
\* the B message of an entry
BMsg(e) == Msg("B", e.t % kPosHisLen, e.v, "")
\* the B messages the last handler sent to its client, in order
BSent == SelectSeq(reply, LAMBDA m : m.tag = "B")

\* C9 as stated: a new client receives one B message for every non-empty entry
\* and none for the empty ones, newest first.
ReplayNewestFirst ==
    lastEvent = "clientConnect" =>
        BSent = [k \in 1..Len(FullEntries) |-> BMsg(FullEntries[k])]

\* C9 amended: a new client receives one B message for every non-empty entry
\* and none for the empty ones, oldest first.
ReplayOldestFirst ==
    lastEvent = "clientConnect" =>
        BSent = [k \in 1..Len(FullEntries) |->
                    BMsg(FullEntries[Len(FullEntries) + 1 - k])]

\* C9 witness: a client has connected to a history of three or more non-empty
\* entries and some empty ones, and got one B message per non-empty entry.
ReplayedThree ==
    /\ lastEvent = "clientConnect" /\ Len(FullEntries) >= 3
    /\ Len(history) > Len(FullEntries) /\ Len(BSent) = Len(FullEntries)

\* ----------------------------------------------------------------------- C10
\* C10: the history holds at most kPosHisLen entries, and its head entry is the
\* entry of second historyTime.
HistoryBounded ==
    /\ Len(history) <= kPosHisLen
    /\ history # <<>> => history[1].t = historyTime

\* C10 witness: after a jump of the clock by more than kPosHisLen seconds an
\* entry was added, and the history is full with the new second at its head.
HistoryFull ==
    /\ lastEvent \in {"tick", "adamData"} /\ historyTime > kPosHisLen
    /\ Len(history) = kPosHisLen /\ history[1].t = historyTime

\* ----------------------------------------------------------------------- C11
\* C11: for every valid index i (from 0), history[i] is the entry created for
\* second historyTime - i, so historyTime - i is congruent modulo kPosHisLen to
\* the time of entry i; the values an ADC sample writes for second t are at
\* index historyTime - t.
HistoryIndexed ==
    /\ \A i \in 0..(Len(history) - 1) :
           /\ history[i + 1].t = historyTime - i
           /\ (historyTime - i) % kPosHisLen = history[i + 1].t % kPosHisLen
    /\ (lastEvent = "adamData" /\ fullPoll) =>
           /\ historyTime - now \in 0..(Len(history) - 1)
           /\ history[historyTime - now + 1].t = now
           /\ history[historyTime - now + 1].v =
                  [j \in 1..3 |-> ToFixed4(damperPosition[j - 1])]

\* C11 witness: the values written one second ago are at index 1, behind the
\* entry of the current second, in a history that has already evicted entries.
HistoryShifted ==
    /\ Len(history) = kPosHisLen /\ historyTime = now /\ now > kPosHisLen + 1
    /\ Len(history[2].v) = 3 /\ history[2].t = now - 1

\* ----------------------------------------------------------------------- C12
\* the occupied role slots
RoleSlots == {i \in 0..1 : avrs[i] # Null}

\* C12 as stated: after any sequence of attach, identify, detach, send-error
\* and unknown-device events, no device is in two role slots and foundAVRs is
\* the number of occupied role slots.
FoundCountsRoles ==
    /\ \A i \in RoleSlots : \A j \in RoleSlots : avrs[i] = avrs[j] => i = j
    /\ foundAVRs = Cardinality(RoleSlots)

\* ----------------------------------------------------------------------- C13
\* C13 as stated: a device in role slot i has reported the serial configured
\* for slot i; a device whose serial is not in the table is never in slot 0 or 1.
RoleSerials == \A i \in RoleSlots : DevSN(avrs[i]) = avrSN[i]

\* ----------------------------------------------------------------------- C14
\* the devices whose serial is not in the table
Foreign == {d \in Devices : \A i \in 0..1 : DevSN(d) # avrSN[i]}
\* the last handler was given a response with this id by foreign device fromDev
ForeignAnswer(id) ==
    /\ lastEvent = "avrData" /\ fromDev \in Foreign
    /\ input # <<>> /\ input[1].id = id /\ input[1].ok

\* C14 as stated: a device with an unrecognized serial is put in a holding
\* slot (index >= 2) and sent a.ser;b.ver; on its serial response it is sent
\* z.wdt 0; after its z.OK response it is in no slot, so it is polled no more.
UnknownDropped ==
    /\ (lastEvent = "attach" /\ cmds # <<>>) =>
           /\ cmds = <<[to |-> cmds[1].to, cmd |-> CmdSer]>>
           /\ \E i \in Slots : i >= 2 /\ avrs[i] = cmds[1].to
    /\ ForeignAnswer("a") => SentTo(fromDev, CmdZWdt0)
    /\ ForeignAnswer("z") => \A i \in Slots : avrs[i] # fromDev

\* ----------------------------------------------------------------------- C15
\* the response id line j of a packet is handled under: its own, or the one
\* carried over from the lines before it
CarriedId(lines, j) ==
    LET with == {k \in 1..j : lines[k].id # ""}
    IN  IF with = {} THEN "" ELSE lines[CHOOSE k \in with : \A m \in with : m <= k].id
\* line j is a BAD response: not of an operator command, not starting with OK
BadLine(lines, j) == CarriedId(lines, j) # "e" /\ ~lines[j].ok
\* the last handler was given a packet of BAD responses only, by the board of slot 0
OnlyBadFromAVR0 ==
    /\ lastEvent = "avrData" /\ avrs[0] # Null /\ fromDev = avrs[0]
    /\ input # <<>> /\ \A j \in 1..Len(input) : BadLine(input, j)

\* C15 as stated: a BAD response line sets the liveness flag of its controller,
\* so slot 0 answering with BAD responses only is not an 'AVR0' bad poll.
BadIsAlive == OnlyBadFromAVR0 => avrOK[0] = 1

\* C15 amended: a packet from the board of slot 0 sets avrOK[0] exactly when one
\* of its lines carries a response id and starts with OK (or belongs to an
\* operator response); BAD lines leave the flag as it was, and a tick that
\* finds the ADC OK and avrOK[0] clear counts a bad poll.
AliveOnOK ==
    [][/\ (lastEvent' = "avrData" /\ avrs[0] # Null /\ fromDev' = avrs[0]) =>
              (avrOK'[0] = 1 <=>
                  \/ avrOK[0] = 1
                  \/ \E j \in 1..Len(input') :
                         CarriedId(input', j) # "" /\ ~BadLine(input', j))
       /\ (lastEvent' = "tick" /\ adamState = kAdamOK /\ avrOK[0] = 0) =>
              badPolls' = Min(badPolls + 1, kMaxBadPolls)]_vars

\* C15 witness: the board of slot 0 has answered the tick's commands with a
\* BAD response only; it was logged and the flag is still clear.
BadNotAlive ==
    /\ OnlyBadFromAVR0 /\ avrOK[0] = 0 /\ adamState = kAdamOK
    /\ \E i \in 1..Len(out) : out[i].txt = "AVRn Bad response"

\* ----------------------------------------------------------------------- C16
\* the calls of RampMotor for motor i among the calls rs
CallsFor(rs, i) == SelectSeq(rs, LAMBDA r : r[1] = i)
\* the speed for a damper position: fast, medium or slow by its distance from nominal
LawSpeed(pos) ==
    IF Abs(pos - kPositionNom) > kPositionFast THEN kMotorFast
    ELSE IF Abs(pos - kPositionNom) > kPositionTol THEN kMotorMed
    ELSE kMotorSlow
\* the control pass of an ADC sample gets to axis i: the motor positions mp of
\* the axes up to i agree with the stage positions st
PassReaches(i, mp, st) == \A j \in 0..i : ~MotorPosError(mp[j], st[j])

LawDir(pos, load, spd, act) ==
    IF load > kLoadMax THEN "down"
    ELSE IF load < kLoadMin THEN "up"
    ELSE IF pos < kPositionNom - kPositionTol /\ load < kLoadMax - kLoadTol THEN "up"
    ELSE IF pos > kPositionNom + kPositionTol /\ load > kLoadMin + kLoadTol THEN "down"
    ELSE IF spd > 0
         THEN (IF pos >= kPositionNom \/ load > kLoadMax - kLoadTol THEN "stop" ELSE "up")
    ELSE IF spd < 0
         THEN (IF pos <= kPositionNom \/ load < kLoadMin + kLoadTol THEN "stop" ELSE "down")
    ELSE IF act = 2
         THEN (IF pos < kPositionNom THEN "up"
               ELSE IF pos > kPositionNom THEN "down" ELSE "none")
    ELSE "none"
\* the calls of RampMotor that rule makes for axis i: a stop, or the direction
\* times the speed if the limit switch on that side (top, bot) is not hit
LawCalls(i, pos, load, spd, act, top, bot) ==
    LET d == LawDir(pos, load, spd, act)
    IN  IF d = "stop" THEN <<<<i, 0>>>>
        ELSE IF d = "up" /\ top = kNotLimit THEN <<<<i, LawSpeed(pos)>>>>
        ELSE IF d = "down" /\ bot = kNotLimit THEN <<<<i, 0 - LawSpeed(pos)>>>>
        ELSE <<>>

\* C17: on each ADC sample while active, for each axis the control pass gets
\* to, the calls of RampMotor are those of the first matching rule of the
\* decision table, at the speed for the damper's distance from nominal.
ControlLaw ==
    [][(lastEvent' = "adamData" /\ active # 0) =>
           \A i \in Axes :
               PassReaches(i, motorPos, stagePosition') =>
                   CallsFor(ramps', i) =
                       LawCalls(i, damperPosition'[i], damperLoad'[i], motorSpd[i], active,
                                limitSwitch[i * 2 + kTopLimit],
                                limitSwitch[i * 2 + kBotLimit])]_vars

\* C17 witness: damper 0 at 0.85 mm with a load of 40 kg and motor 0 at rest:
\* RampMotor(0, +kMotorMed) was called, and nothing for the other axes.
DroveUpMed ==
    /\ lastEvent = "adamData" /\ active # 0 /\ motorSpd[0] = 0
    /\ damperPosition[0] = 85 /\ damperLoad[0] = 40 * 200
    /\ ramps = <<<<0, kMotorMed>>>>

\* ----------------------------------------------------------------------- C18
\* C18: an ADC data event whose length is not kAdamRespLen is ignored: the ADC
\* state, the positions and loads, the history and the rest of the control
\* state are unchanged, the control law is not run (no call of RampMotor, no
\* command sent) and nothing is broadcast.
ShortIgnored ==
    [][lastEvent' = "adamShort" =>
          /\ adamState' = adamState
          /\ damperPosition' = damperPosition /\ stagePosition' = stagePosition
          /\ damperLoad' = damperLoad
          /\ history' = history /\ historyTime' = historyTime /\ logCalTime' = logCalTime
          /\ active' = active /\ badPolls' = badPolls
          /\ flashNum' = flashNum /\ flashTime' = flashTime
          /\ ramps' = <<>> /\ cmds' = <<>> /\ out' = <<>>]_vars

\* C18 witness: a fragment has arrived while the ADC state is MISSED, position
\* control is active with damper 0 low and the tick is one that reports: the
\* state is still MISSED and nothing was sent.
ShortDropped ==
    /\ lastEvent = "adamShort" /\ adamState = kAdamMissed /\ active # 0 /\ fullPoll
    /\ damperPosition[0] = 85 /\ limitSwitch[kTopLimit] = kNotLimit /\ motorSpd[0] = 0
    /\ cmds = <<>> /\ out = <<>>

\* ----------------------------------------------------------------------- C19
\* the F messages among the broadcasts o
FMsgs(o) == SelectSeq(o, LAMBDA m : m.tag = "F")
\* the empty F message of second t
EmptyF(t) == Msg("F", t % kPosHisLen, <<>>, "")

\* C19 as stated: a tick that toggles fullPoll to true while the ADC state is
\* not OK broadcasts exactly one empty F message for second t, and the
\* history then has an empty entry for second t; a tick that toggles fullPoll
\* to false broadcasts no F message.
EmptyMarkerEmptyEntry ==
    [][lastEvent' = "tick" =>
          /\ (fullPoll' /\ adamState # kAdamOK) =>
                 /\ FMsgs(out') = <<EmptyF(now)>>
                 /\ historyTime' = now /\ history'[1].t = now /\ history'[1].v = <<>>
          /\ ~fullPoll' => FMsgs(out') = <<>>]_vars

\* C19 amended: such a tick broadcasts exactly one empty F message for second
\* t, and the history then has an entry for second t: the entry that was
\* there, with the values of an ADC sample of that second if there was one,
\* or else a new empty one; a tick that toggles fullPoll to false broadcasts
\* no F message.
EmptyMarker ==
    [][lastEvent' = "tick" =>
          /\ (fullPoll' /\ adamState # kAdamOK) =>
                 /\ FMsgs(out') = <<EmptyF(now)>>
                 /\ historyTime' = now /\ history'[1].t = now
                 /\ history'[1].v = IF history # <<>> /\ historyTime = now
                                    THEN history[1].v ELSE <<>>
          /\ ~fullPoll' => FMsgs(out') = <<>>]_vars

\* C19 witness: a tick has found the ADC not OK and has broadcast the empty F
\* message of a second whose entry holds the values of an earlier sample.
EmptyMarkerOverSample ==
    /\ lastEvent = "tick" /\ fullPoll /\ adamState = kAdamMissed
    /\ FMsgs(out) = <<EmptyF(now)>>
    /\ historyTime = now /\ Len(history[1].v) = 3 /\ Len(history) >= 2

\* ----------------------------------------------------------------------- C20
\* the state of the server and of its hardware, without the clock and the
\* record of what the last handler sent
ServerState ==
    <<adam, adamState, avrs, avrOK, foundAVRs, conn, active, badPolls, flashNum,
      flashTime, motorSpd, motorDir, limitSwitch, lastSpd, motorPos, history,
      historyTime, logCalTime, intrvl, fullPoll, verbose, damperPosition,
      stagePosition, damperLoad, cuteName, authTable, socks, dev, owed, pendErr,
      crashed, exited>>
NotAuthorized == Msg("C", 0, <<>>, "Sorry, you are not authorized to issue commands")

\* C20: when the authorized table has no '*' entry and does not list the
\* client's address, a command of the client is answered with the 'not
\* authorized' message and otherwise ignored: active, verbose, the client's
\* name and the rest of the server state are unchanged, no command is sent to
\* any controller and nothing is broadcast.
UnauthorizedIgnored ==
    [][(/\ lastEvent' = "command"
        /\ "*" \notin authTable
        /\ \A c \in Clients : ClientAddr(c) \notin authTable)
       => /\ reply' = <<NotAuthorized>>
          /\ ServerState' = ServerState
          /\ cmds' = <<>> /\ out' = <<>>]_vars

\* C20 witness: a command has been refused while AVR0 is attached and the
\* ADAM answers, so that 'active on' would have switched position control on.
Refused ==
    /\ lastEvent = "command" /\ reply = <<NotAuthorized>>
    /\ "*" \notin authTable /\ \A c \in Clients : ClientAddr(c) \notin authTable
    /\ avrs[0] # Null /\ adamState = kAdamOK /\ active = 0 /\ verbose = 0

\* ----------------------------------------------------------------------- C21
\* C21: after a send error or a send exception on the occupied slot 0 the slot
\* is marked absent, and with no new USB attach event a following tick of the
\* scheduler makes the slot occupied again (as long as the server runs).
Rediscovered == (avrs[0] = Null /\ ~crashed) ~> (avrs[0] # Null \/ crashed)

\* ----------------------------------------------------------------------- C22
\* the command m has an unknown command word, or an argument that the command
\* does not take (active [on|off|start] with their digits, verbose [on|off])
Malformed(m) ==
    \/ m.cmd \notin {"help", "active", "cal", "list", "log", "name", "verbose", "who", "avr"}
    \/ m.cmd = "active" /\ m.arg \notin {"", "on", "off", "start", "0", "1", "2"}
    \/ m.cmd = "verbose" /\ m.arg \notin {"", "on", "off"}

\* C22: a client command with an unknown command word or an invalid argument
\* is answered with one console line on that client's channel only (nothing is
\* broadcast) and changes no server state; no command is sent to a controller.
MalformedIgnored ==
    [][(lastEvent' = "command" /\ Malformed(input'[1]))
       => /\ Len(reply') = 1 /\ reply'[1].tag = "C"
          /\ out' = <<>> /\ cmds' = <<>>
          /\ ServerState' = ServerState]_vars

\* ----------------------------------------------------------------------- C23
\* C23: a malformed limit-switch poll response forces deactivation: after it is
\* processed while position control is active, active = OFF.
MalformedDeactivates ==
    [][(active # 0 /\ MalformedLimitPoll') => active' = 0]_vars

\* ----------------------------------------------------------------------- C24
\* the axes whose motor position disagrees with the stage position
BadAxes == {i \in Axes : MotorPosError(motorPos[i], stagePosition[i])}
\* the first of them
FirstBadAxis == CHOOSE i \in BadAxes : \A j \in BadAxes : i <= j
\* the motor commands among the commands of the last handler
MotorCmds == SelectSeq(cmds, LAMBDA m : m.to # Adam /\ m.cmd.op \in
                 {"c.halt", "c.mN halt", "c.mN ramp", "c.mN on 1;mN pos"})

MsgD1 == Msg("D", 1, <<>>, "")

\* C25: an 'active on' or 'active start' command that asks for another state
\* than the present one changes the activation state only if slot 0 is
\* occupied: active becomes ON or STARTING, for each axis i the command
\* 'c.mI on 1;mI pos floor(stagePosition[i] * kMotorStepsPer_mm)' is sent to
\* slot 0, motorPos[i] is set to that value and 'D 1' is broadcast.  With slot
\* 0 empty, active and motorPos are unchanged, no command is sent and no 'D 1'
\* is broadcast.
ActivationSeeds ==
    [][(/\ lastEvent' = "command" /\ input'[1].cmd = "active"
        /\ input'[1].arg \in {"on", "start"}
        /\ ActiveArg(input'[1].arg) # active)
       => IF avrs[0] # Null
          THEN /\ active' = ActiveArg(input'[1].arg)
               /\ \A i \in Axes :
                      /\ \E k \in 1..Len(cmds') :
                             /\ cmds'[k].to = avrs[0]
                             /\ cmds'[k].cmd = CmdOnPos(i, StepsFloor(stagePosition[i]))
                      /\ motorPos'[i] = StepsFloor(stagePosition[i])
               /\ \E k \in 1..Len(out') : out'[k] = MsgD1
          ELSE /\ active' = active /\ motorPos' = motorPos /\ cmds' = <<>>
               /\ \A k \in 1..Len(out') : out'[k] # MsgD1]_vars

\* ----------------------------------------------------------------------- C26
\* C26: every 'D' message of a handler, broadcast to the clients or sent to
\* the client that has just connected, carries the value 0 or 1.
DIsZeroOrOne ==
    /\ \A k \in 1..Len(out) : out[k].tag = "D" => out[k].a \in {0, 1}
    /\ \A k \in 1..Len(reply) : reply[k].tag = "D" => reply[k].a \in {0, 1}

\* ----------------------------------------------------------------------- C27
\* the ramp commands for motor n among the commands cs
RampsFor(cs, n) == {j \in 1..Len(cs) : cs[j].cmd.op = "c.mN ramp" /\ cs[j].cmd.n = n}

\* C27: RampMotor never commands the reversal of a moving motor.  For every
\* call RampMotor(n, spd) of a handler: when the shadow speed motorSpd[n] and
\* spd have opposite signs, the one command sent is a ramp to 0 without a
\* direction; and a direction is written (in front of the ramp, in the same
\* command) only when motorSpd[n] is 0, spd is not 0 and the direction of spd
\* differs from the shadow direction motorDir[n].  Every ramp command comes
\* from such a call.
NoReversal ==
    [][/\ \A k \in 1..Len(ramps') :
              LET n == ramps'[k][1]
                  spd == ramps'[k][2]
              IN  /\ motorSpd[n] * spd < 0 =>
                         /\ Cardinality(RampsFor(cmds', n)) = 1
                         /\ \A j \in RampsFor(cmds', n) :
                                cmds'[j].cmd.arg = 0 /\ cmds'[j].cmd.dir = -1
                  /\ \A j \in RampsFor(cmds', n) :
                         cmds'[j].cmd.dir # -1 =>
                             /\ motorSpd[n] = 0 /\ spd # 0
                             /\ cmds'[j].cmd.dir = (IF spd > 0 THEN 0 ELSE 1)
                             /\ cmds'[j].cmd.dir # motorDir[n]
       /\ \A j \in RampsSent' : \E k \in 1..Len(ramps') : ramps'[k][1] = cmds'[j].cmd.n]_vars

\* C27 witness: motor 0 runs down and the control law has asked to drive it up:
\* the command sent is 'c.m0 ramp 0'.
StoppedFirst ==
    /\ lastEvent = "adamData" /\ motorSpd[0] < 0 /\ motorDir[0] = 1
    /\ ramps # <<>> /\ ramps[1][1] = 0 /\ ramps[1][2] > 0
    /\ Sent(CmdRamp(0, 0, -1))

\* ----------------------------------------------------------------------- C28
\* C28: the control law asks for a non-zero upward speed of axis n, and sends
\* a non-zero ramp for it, only when the top limit switch of the axis (index
\* 2n) reads NOT_HIT, and for a downward one only when its bottom switch
\* (index 2n + 1) reads NOT_HIT, in the values of the last limit poll.
LimitGate ==
    [][\A k \in 1..Len(ramps') :
           LET n == ramps'[k][1]
               spd == ramps'[k][2]
           IN  /\ spd > 0 => limitSwitch[2 * n + kTopLimit] = kNotLimit
               /\ spd < 0 => limitSwitch[2 * n + kBotLimit] = kNotLimit
               /\ \A j \in RampsFor(cmds', n) : cmds'[j].cmd.arg # 0 => spd # 0]_vars

\* C28 witness: position control is active, damper 0 is low, motor 0 is at rest
\* and the top switch of axis 0 reads HIT: the control pass made no call of
\* RampMotor.
BlockedAtTop ==
    /\ lastEvent = "adamData" /\ active # 0 /\ ~crashed
    /\ damperPosition[0] = 85 /\ motorSpd[0] = 0
    /\ limitSwitch[kTopLimit] = kHitLimit /\ limitSwitch[kBotLimit] = kNotLimit
    /\ ramps = <<>> /\ RampsSent = {}

\* ----------------------------------------------------------------------- C29
\* axis i is inside the position band, off the nominal position, with a load
\* that none of the load rules takes
InBand(pos, load) ==
    /\ pos # kPositionNom /\ Abs(pos - kPositionNom) <= kPositionTol
    /\ load >= kLoadMin /\ load <= kLoadMax
\* the limit switch of axis i on the side of the nominal position reads NOT_HIT
TowardNomFree(i, pos) ==
    IF pos < kPositionNom THEN limitSwitch[i * 2 + kTopLimit] = kNotLimit
    ELSE limitSwitch[i * 2 + kBotLimit] = kNotLimit

ListedAdcStep ==
    \/ /\ lastEvent' = "adamConnect" /\ adamState \in {kAdamBad, kAdamNotConnected}
       /\ adamState' = kAdamOK
    \/ /\ lastEvent' = "tick" /\ adamState = kAdamOK /\ adamState' = kAdamWaiting
       /\ SentAdamRead'
    \/ lastEvent' = "tick" /\ adamState = kAdamWaiting /\ adamState' = kAdamMissed
    \/ /\ lastEvent' = "adamData" /\ adamState \in {kAdamWaiting, kAdamMissed}
       /\ adamState' = kAdamOK
    \/ lastEvent' \in {"adamClose", "adamError"} /\ adamState' = kAdamBad

\* C30 as stated: the ADC connection state changes only by the listed
\* transitions: BAD or NOT_CONNECTED to OK on a connect, OK to WAITING on a
\* tick that sends, WAITING to MISSED on a tick, WAITING or MISSED to OK on a
\* 25-byte response, any state to BAD on socket close or error.
AdcStateMachine == [][adamState' # adamState => ListedAdcStep]_vars

\* C30 amended: the state changes only by the listed transitions and by one
\* more: NOT_CONNECTED to BAD on a tick.
AdcStateMachineTick ==
    [][adamState' # adamState =>
          \/ ListedAdcStep
          \/ /\ lastEvent' = "tick" /\ adamState = kAdamNotConnected
             /\ adamState' = kAdamBad]_vars

\* C30 witness: a tick has found the first socket still connecting, and the
\* state, which was NOT_CONNECTED, is BAD.
TickBeforeConnect ==
    /\ lastEvent = "tick" /\ adamState = kAdamBad
    /\ adam # Null /\ socks[adam] = "connecting"
    /\ \E i \in 1..Len(out) : out[i].txt = "Adam not connected!"

\* ----------------------------------------------------------------------- C31
\* C31: the SIGINT handler cancels the polling timer, releases the device of
\* every occupied slot and empties the slot, and closes the ADAM socket with
\* the ADC state BAD; once it has run the timer is cancelled, so no scheduler
\* tick runs any more.
ShutdownReleases ==
    [][lastEvent' = "sigint" =>
          /\ exited' /\ ~intrvl'
          /\ \A i \in Slots : avrs'[i] = Null
          /\ \A i \in Slots : avrs[i] # Null => dev'[avrs[i]].st = "closed"
          /\ adam' = Null /\ adamState' = kAdamBad
          /\ \A k \in Socks : socks'[k] \notin {"connecting", "open"}]_vars

\* C31 witness: SIGINT came with AVR0 in slot 0 and the ADAM connected; the
\* device is released, the slot is empty, the socket is closing.
ShutDown ==
    /\ lastEvent = "sigint" /\ exited /\ ~intrvl
    /\ dev[1].st = "closed" /\ dev[1].num = 0 /\ avrs[0] = Null
    /\ socks[1] = "closing" /\ adam = Null /\ adamState = kAdamBad

\* ----------------------------------------------------------------------- C32
\* the slot the endpoint of the board that answered pointed to before the handler
FromSlot == dev[fromDev'].inNum

\* a serial-number response by a board whose slot is a holding slot, reporting
\* the serial expected in role slot i
Rebinds(i) ==
    /\ lastEvent' = "avrData" /\ ~crashed'
    /\ input'[1].id = "a" /\ input'[1].ok /\ input'[1].sn = avrSN[i]
    /\ FromSlot >= 2 /\ avrs[FromSlot] # Null

\* C32: after every handler a device is in at most one slot, and the avrNum
\* fields of the device of an occupied slot and of its two endpoints are the
\* number of the slot; a serial-number response that rebinds a device from a
\* holding slot to its role slot leaves, in that handler, the device in the
\* role slot, the three fields at the role slot and the holding slot empty.
SlotTable ==
    [][/\ \A i, j \in Slots : (avrs'[i] # Null /\ avrs'[i] = avrs'[j]) => i = j
       /\ \A i \in Slots : avrs'[i] # Null =>
              /\ dev'[avrs'[i]].num = i
              /\ dev'[avrs'[i]].inNum = i
              /\ dev'[avrs'[i]].outNum = i
       /\ \A i \in 0..1 : Rebinds(i) =>
              /\ avrs'[i] = avrs[FromSlot] /\ avrs'[FromSlot] = Null
              /\ dev'[avrs'[i]].num = i
              /\ dev'[avrs'[i]].inNum = i
              /\ dev'[avrs'[i]].outNum = i]_vars

\* C32 witness: board 2 has reported the serial of AVR0 from a holding slot
\* while board 1 was in slot 0: board 2 is in slot 0, its fields are 0, the
\* holding slot is empty ('ERROR! Already exists!' is logged).
ReboundOver ==
    /\ lastEvent = "avrData" /\ fromDev = 2 /\ avrs[0] = 2
    /\ dev[2].num = 0 /\ dev[2].inNum = 0 /\ dev[2].outNum = 0
    /\ \A i \in Slots : i >= 2 => avrs[i] # 2
    /\ dev[1].num = 0 /\ dev[1].st = "open"
    /\ \E k \in 1..Len(out) : out[k].txt = "ERROR! Already exists!"

\* ----------------------------------------------------------------------- C33
\* the control law chooses, for axis i in the pass of this handler, the
\* direction opposite to the one its motor is reported to move in
ChosenAgainst(i) ==
    DriveRule(damperPosition'[i], damperLoad'[i], motorSpd[i], active).drive * motorSpd[i] < 0

\* C33: after a completed control pass while active, every axis whose motor
\* moves opposite to the direction the control law chose for it has been sent
\* a ramp to 0 in this pass, also when the limit-switch gate blocks the chosen
\* direction.
OpposedStopped ==
    [][(/\ lastEvent' = "adamData" /\ active # 0 /\ ~crashed'
        /\ PassReaches(2, motorPos, stagePosition')) =>
           \A i \in Axes : ChosenAgainst(i) =>
               \E j \in RampsFor(cmds', i) : cmds'[j].cmd.arg = 0]_vars

\* ----------------------------------------------------------------------- C34
\* C34 as stated: a motor-feedback response to a poll sent before the
\* activation does not bring about the motor-position-error deactivation.  An
\* ADC sample that comes while active, finds the stage where it was and
\* the position register of the board's motor 0 in agreement with the stage,
\* leaves position control active.
StaleFeedbackHarmless ==
    [][(/\ lastEvent' = "adamData" /\ active # 0
        /\ stagePosition' = stagePosition
        /\ avrs[0] # Null /\ ~MotorPosError(dev[avrs[0]].reg, stagePosition[0])) =>
           active' # 0]_vars

\* ----------------------------------------------------------------------- C35
\* device d is in no slot
InNoSlot(d) == \A i \in Slots : avrs[i] # d
\* the handler of this step is a forget request with the handle of device d:
\* its detach event or the error callback of a transfer to it
ForgetRequest(d) ==
    \/ lastEvent' = "detach" /\ dev[d].st # "out" /\ dev'[d].st = "out"
    \/ lastEvent' = "sendError" /\ d \in pendErr /\ d \notin pendErr'

\* C35 as stated: a forget request with the handle of a device that is in no
\* slot empties no occupied slot and leaves foundAVRs as it is; and a response
\* of such a device, whose endpoint still points to a slot that another device
\* now occupies, changes neither the slot table nor that slot's avrOK flag
\* nor anything recorded for the other device.
StaleHandleHarmless ==
    [][\A d \in Devices : InNoSlot(d) =>
           /\ ForgetRequest(d) =>
                  /\ \A i \in Slots : avrs[i] # Null => avrs'[i] = avrs[i]
                  /\ foundAVRs' = foundAVRs
           /\ (/\ lastEvent' = "avrData" /\ fromDev' = d
               /\ dev[d].inNum # -1 /\ avrs[dev[d].inNum] # Null) =>
                  /\ avrs' = avrs /\ foundAVRs' = foundAVRs
                  /\ avrOK'[dev[d].inNum] = avrOK[dev[d].inNum]
                  /\ dev'[avrs[dev[d].inNum]] = dev[avrs[dev[d].inNum]]]_vars

\* ----------------------------------------------------------------------- C36
\* the last handler deactivated position control for a poll error
PollErrorDeactivated ==
    \E i \in 1..Len(out) : out[i].txt = "poll error!  Position control deactivated"

AdcSocketPresent ==
    [][/\ adamState' \in {kAdamOK, kAdamWaiting, kAdamMissed} => adam' # Null
       /\ SentAdamRead' => (adam' # Null /\ ~crashed')
       /\ ~crashed'
       /\ (adam' # Null /\ adam' # adam) => (adam = Null /\ lastEvent' = "tick")]_vars

\* C37 witness: the close event of the first socket came after the tick had
\* made the second one: the second socket is destroyed, no socket object is
\* left and the state is BAD.
StaleCloseAfterReconnect ==
    /\ lastEvent = "adamClose" /\ adam = Null /\ adamState = kAdamBad
    /\ socks[1] = "free" /\ socks[2] = "closing"

\* ----------------------------------------------------------------------- C38
\* C38: in the state MISSED a scheduler tick writes no ADC request, leaves the
\* state MISSED and counts as a bad poll; the state leaves MISSED only to OK,
\* by a response of 25 bytes, or to BAD, by the close or the error of the
\* socket.
MissedWaits ==
    [][adamState = kAdamMissed =>
          /\ lastEvent' = "tick" =>
                 /\ ~SentAdamRead' /\ adamState' = kAdamMissed
                 /\ BadPoll(State) = "Adam"
                 /\ badPolls' = Min(badPolls + 1, kMaxBadPolls)
          /\ adamState' # kAdamMissed =>
                 \/ lastEvent' = "adamData" /\ adamState' = kAdamOK
                 \/ lastEvent' \in {"adamClose", "adamError"} /\ adamState' = kAdamBad]_vars

\* C38 witness: a tick has found the state MISSED: it has written nothing and
\* logged nothing, the state is MISSED and two requests are unanswered.
TickInMissed ==
    /\ lastEvent = "tick" /\ adamState = kAdamMissed /\ ~SentAdamRead
    /\ adamUnanswered = 2 /\ badPolls > 0
    /\ \A i \in 1..Len(out) : out[i].txt # "Adam not responding"

\* ----------------------------------------------------------------------- C39
\* C39 as stated: with the timer firing and the boards answering, the board
\* with the serial of AVR0, once attached and staying attached without send
\* errors, comes to occupy role slot 0 and stays there.
Identified == (dev[1].st = "open") ~> [](avrs[0] = 1)

\* ----------------------------------------------------------------------- C40
\* every limit switch reads HIT, as at the start of the server.  In SpecFirst
\* no response sets a switch to HIT that read NOT_HIT, so the switches all
\* read HIT exactly until the first response that sets one of them.
AllHit == \A k \in 0..(kNumLimit - 1) : limitSwitch[k] = kHitLimit

\* C40 as stated: until the first well-formed limit poll response has been
\* processed every limit switch reads HIT (the first handler that leaves a
\* switch at NOT_HIT is the one of a response with all kNumLimit switch
\* characters), and a handler that leaves all switches at HIT has sent no
\* ramp command with a non-zero speed.
HitUntilFirstPoll ==
    [][/\ (AllHit /\ ~AllHit') => LimitPoll'
       /\ AllHit' => \A j \in 1..Len(cmds') :
                         cmds'[j].cmd.op = "c.mN ramp" => cmds'[j].cmd.arg = 0]_vars

====
